---- MODULE Spec2Model ----
(***************************************************************************)
(* Staking ledger, next validator set, unbonding queues and validator set  *)
(* histories of the appchain anchor contract                               *)
(* (appchain-anchor/src/staking.rs, appchain-anchor/src/validator_set.rs). *)
(*                                                                         *)
(* Units.  Balances are counted in units of 1000 * OCT_DECIMALS_VALUE, so  *)
(* that the default minimum_validator_deposit is 10 and the default        *)
(* minimum_delegator_deposit is 1.  Timestamps are counted in days         *)
(* (SECONDS_OF_A_DAY * NANO_SECONDS_MULTIPLE nanoseconds), so that the     *)
(* unlock periods are 21 and 7.                                            *)
(*                                                                         *)
(* A panic (failed assert!, unwrap of None, checked arithmetic overflow)   *)
(* aborts the contract call and the runtime discards every write of the    *)
(* call: a panicking call leaves the stored state unchanged.               *)
(***************************************************************************)
EXTENDS Integers, Sequences, FiniteSets, TLC

VARIABLES
    staking_histories,            \* AppchainAnchor.staking_histories
    next_validator_set,           \* AppchainAnchor.next_validator_set
    validator_account_id_mapping, \* AppchainAnchor.validator_account_id_mapping
    unbonded_stakes,              \* AppchainAnchor.unbonded_stakes
    validator_set_histories,      \* AppchainAnchor.validator_set_histories
    env,                          \* env::block_index(), env::block_timestamp()
    overflow_checks,              \* whether the build traps integer overflow
    last,                         \* the contract call made by the last step
    unwithdrawn_validator_rewards, \* AppchainAnchor.unwithdrawn_validator_rewards
    unwithdrawn_delegator_rewards, \* AppchainAnchor.unwithdrawn_delegator_rewards
    encoded_message,              \* the argument of ProofDecoder::decode
    decoded,                      \* the outcome of ProofDecoder::decode
    ft_transfers,                 \* the ft_transfer promises that have not resolved
    validator_set_of_era,         \* a ValidatorSetOfEra the era methods act on
    returned                      \* the value returned by the last query

vars == <<staking_histories, next_validator_set, validator_account_id_mapping,
          unbonded_stakes, validator_set_histories, env, overflow_checks, last,
          unwithdrawn_validator_rewards, unwithdrawn_delegator_rewards,
          encoded_message, decoded, ft_transfers, validator_set_of_era, returned>>

\* the reward ledger of the contract
rewards == <<unwithdrawn_validator_rewards, unwithdrawn_delegator_rewards>>

\* a snapshot of an era and the value of the last query
era_object == <<validator_set_of_era, returned>>

\* the argument and the outcome of decode
decoder == <<encoded_message, decoded>>

stored == <<staking_histories, next_validator_set, validator_account_id_mapping,
            unbonded_stakes, validator_set_histories>>

----------------------------------------------------------------------------
(* Bounds of the model *)

\* the ledger is capped at this many entries
MaxFacts == 4
\* a call that panics is kept in `last` while the ledger is shorter than this
MaxLoggedFacts == 2
\* the clock stops at this timestamp
MaxTime == 28
\* era numbers offered to ValidatorSetHistories::insert
MaxEra == 1
\* stand-in for 2^128, the modulus of Balance (u128)
BalanceModulus == 256

\* the inputs of the calls
AccountIds == {"a", "b"}
AppchainIds == {"x", "y"}
\* deposits and decreases: below, at and above minimum_validator_deposit
Amounts == {1, 10, 11}
\* the amounts of increase_stake and increase_delegation
IncreaseAmounts == {1}
\* can_be_delegated_to of register_validator (disable_delegation clears it)
DelegationFlags == {TRUE}
\* the days between two blocks
TimeStep == 7

----------------------------------------------------------------------------
(* ProtocolSettings::default *)

minimum_validator_deposit == 10
minimum_delegator_deposit == 1
maximum_validators_per_delegator == 16
unlock_period_of_validator_deposit == 21
unlock_period_of_delegator_deposit == 7
maximum_era_count_of_unwithdrawn_reward == 84

----------------------------------------------------------------------------
(* LookupMap: a function whose domain is the set of keys present *)

EmptyMap == [k \in {} |-> 0]

contains_key(m, k) == k \in DOMAIN m

insert(m, k, v) == [x \in (DOMAIN m) \cup {k} |-> IF x = k THEN v ELSE m[x]]

remove(m, k) == [x \in (DOMAIN m) \ {k} |-> m[x]]

----------------------------------------------------------------------------
(* Balance arithmetic (u128 `+`, `-`, `+=`, `-=`).  Overflow panics in a   *)
(* build with overflow checks and wraps in a build without them.  Panic is *)
(* the value -1.                                                           *)

Panic == 0 - 1

add(x, y) ==
    IF x + y >= BalanceModulus
    THEN (IF overflow_checks THEN Panic ELSE (x + y) % BalanceModulus)
    ELSE x + y

sub(x, y) ==
    IF x - y < 0
    THEN (IF overflow_checks THEN Panic ELSE (x - y) % BalanceModulus)
    ELSE x - y

----------------------------------------------------------------------------
(* ValidatorSet (validator_set.rs) *)

\* ValidatorSet::new
ValidatorSet_new(era_number) ==
    [era_number |-> era_number,
     validator_id_set |-> {},
     validator_id_to_delegator_id_set |-> EmptyMap,
     delegator_id_to_validator_id_set |-> EmptyMap,
     validators |-> EmptyMap,
     delegators |-> EmptyMap,
     total_stake |-> 0]

\* outcome of a call on a validator set: completed with the new set, or panicked
Done(vs) == [ok |-> TRUE, vs |-> vs]
Panicked(vs) == [ok |-> FALSE, vs |-> vs]

\* the loop body without the update of delegator_id_to_validator_id_set
unbond_one_delegator_one_way(vs, delegator_id, validator_id) ==
    [vs EXCEPT !.delegators = remove(@, <<delegator_id, validator_id>>)]

\* the loop body of the ValidatorUnbonded arm, for one delegator of the validator
unbond_one_delegator(vs, delegator_id, validator_id) ==
    LET vs1 == [vs EXCEPT !.delegators = remove(@, <<delegator_id, validator_id>>)]
    IN  IF contains_key(vs1.delegator_id_to_validator_id_set, delegator_id)
        THEN LET validator_id_set ==
                     vs1.delegator_id_to_validator_id_set[delegator_id] \ {validator_id}
             IN  IF Cardinality(validator_id_set) > 0
                 THEN [vs1 EXCEPT !.delegator_id_to_validator_id_set =
                                      insert(@, delegator_id, validator_id_set)]
                 ELSE [vs1 EXCEPT !.delegator_id_to_validator_id_set =
                                      remove(@, delegator_id)]
        ELSE vs1

\* delegator_ids.iter().for_each(...) of the ValidatorUnbonded arm
RECURSIVE unbond_delegators(_, _, _)
unbond_delegators(vs, delegator_ids, validator_id) ==
    IF delegator_ids = {}
    THEN vs
    ELSE LET d == CHOOSE x \in delegator_ids : TRUE
         IN  unbond_delegators(unbond_one_delegator(vs, d, validator_id),
                               delegator_ids \ {d}, validator_id)

apply_ValidatorRegistered(vs, f, e) ==
    LET total == add(vs.total_stake, f.amount)
    IN  IF total = Panic
        THEN Panicked(vs)
        ELSE Done([vs EXCEPT
                 !.validator_id_set = @ \cup {f.validator_id},
                 !.validators = insert(@, f.validator_id,
                     [validator_id |-> f.validator_id,
                      validator_id_in_appchain |-> f.validator_id_in_appchain,
                      registered_block_height |-> e.block_index,
                      registered_timestamp |-> e.block_timestamp,
                      deposit_amount |-> f.amount,
                      total_stake |-> f.amount,
                      can_be_delegated_to |-> f.can_be_delegated_to]),
                 !.total_stake = total])

apply_StakeIncreased(vs, f) ==
    IF ~contains_key(vs.validators, f.validator_id)
    THEN Panicked(vs)
    ELSE LET validator == vs.validators[f.validator_id]
             deposit == add(validator.deposit_amount, f.amount)
             stake == add(validator.total_stake, f.amount)
             total == add(vs.total_stake, f.amount)
         IN  IF deposit = Panic \/ stake = Panic \/ total = Panic
             THEN Panicked(vs)
             ELSE Done([vs EXCEPT
                      !.validators = insert(@, f.validator_id,
                          [validator EXCEPT !.deposit_amount = deposit,
                                            !.total_stake = stake]),
                      !.total_stake = total])

apply_StakeDecreased(vs, f) ==
    IF ~contains_key(vs.validators, f.validator_id)
    THEN Panicked(vs)
    ELSE LET validator == vs.validators[f.validator_id]
             deposit == sub(validator.deposit_amount, f.amount)
             stake == sub(validator.total_stake, f.amount)
             total == sub(vs.total_stake, f.amount)
         IN  IF deposit = Panic \/ stake = Panic \/ total = Panic
             THEN Panicked(vs)
             ELSE Done([vs EXCEPT
                      !.validators = insert(@, f.validator_id,
                          [validator EXCEPT !.deposit_amount = deposit,
                                            !.total_stake = stake]),
                      !.total_stake = total])

apply_ValidatorUnbonded(vs, f) ==
    LET vs1 == IF contains_key(vs.validator_id_to_delegator_id_set, f.validator_id)
               THEN LET cleared == unbond_delegators(vs,
                                       vs.validator_id_to_delegator_id_set[f.validator_id],
                                       f.validator_id)
                    IN  [cleared EXCEPT !.validator_id_to_delegator_id_set =
                                            remove(@, f.validator_id)]
               ELSE vs
    IN  IF ~contains_key(vs1.validators, f.validator_id)
        THEN Panicked(vs)
        ELSE LET validator == vs1.validators[f.validator_id]
                 total == sub(vs1.total_stake, validator.total_stake)
             IN  IF total = Panic
                 THEN Panicked(vs)
                 ELSE Done([vs1 EXCEPT
                          !.validators = remove(@, f.validator_id),
                          !.total_stake = total,
                          !.validator_id_set = @ \ {f.validator_id}])

\* the arm that also sets the validator's total stake back to its own deposit
apply_ValidatorDelegation_resetting(vs, f, flag) ==
    IF ~contains_key(vs.validators, f.validator_id)
    THEN Panicked(vs)
    ELSE Done([vs EXCEPT !.validators = insert(@, f.validator_id,
                  [vs.validators[f.validator_id] EXCEPT
                       !.can_be_delegated_to = flag,
                       !.total_stake = vs.validators[f.validator_id].deposit_amount])])

apply_ValidatorDelegation(vs, f, flag) ==
    IF ~contains_key(vs.validators, f.validator_id)
    THEN Panicked(vs)
    ELSE Done([vs EXCEPT !.validators = insert(@, f.validator_id,
                  [vs.validators[f.validator_id] EXCEPT !.can_be_delegated_to = flag])])

\* the DelegatorRegistered arm without the lookup of the validator: the delegator
\* record is inserted and nothing else
apply_DelegatorRegistered_unchecked(vs, f, e) ==
    Done([vs EXCEPT !.delegators = insert(@, <<f.delegator_id, f.validator_id>>,
                        [delegator_id |-> f.delegator_id,
                         validator_id |-> f.validator_id,
                         registered_block_height |-> e.block_index,
                         registered_timestamp |-> e.block_timestamp,
                         deposit_amount |-> f.amount])])

apply_DelegatorRegistered(vs, f, e) ==
    LET key == <<f.delegator_id, f.validator_id>>
        v2d == IF contains_key(vs.validator_id_to_delegator_id_set, f.validator_id)
               THEN vs.validator_id_to_delegator_id_set
               ELSE insert(vs.validator_id_to_delegator_id_set, f.validator_id, {})
        d2v == IF contains_key(vs.delegator_id_to_validator_id_set, f.delegator_id)
               THEN vs.delegator_id_to_validator_id_set
               ELSE insert(vs.delegator_id_to_validator_id_set, f.delegator_id, {})
    IN  IF ~contains_key(vs.validators, f.validator_id)
        THEN Panicked(vs)
        ELSE LET validator == vs.validators[f.validator_id]
                 stake == add(validator.total_stake, f.amount)
                 total == add(vs.total_stake, f.amount)
             IN  IF stake = Panic \/ total = Panic
                 THEN Panicked(vs)
                 ELSE Done([vs EXCEPT
                          !.delegators = insert(@, key,
                              [delegator_id |-> f.delegator_id,
                               validator_id |-> f.validator_id,
                               registered_block_height |-> e.block_index,
                               registered_timestamp |-> e.block_timestamp,
                               deposit_amount |-> f.amount]),
                          !.validator_id_to_delegator_id_set =
                              insert(v2d, f.validator_id,
                                     v2d[f.validator_id] \cup {f.delegator_id}),
                          !.delegator_id_to_validator_id_set =
                              insert(d2v, f.delegator_id,
                                     d2v[f.delegator_id] \cup {f.validator_id}),
                          !.validators = insert(@, f.validator_id,
                              [validator EXCEPT !.total_stake = stake]),
                          !.total_stake = total])

apply_DelegationIncreased(vs, f) ==
    LET key == <<f.delegator_id, f.validator_id>>
    IN  IF ~contains_key(vs.delegators, key) \/ ~contains_key(vs.validators, f.validator_id)
        THEN Panicked(vs)
        ELSE LET delegator == vs.delegators[key]
                 validator == vs.validators[f.validator_id]
                 deposit == add(delegator.deposit_amount, f.amount)
                 stake == add(validator.total_stake, f.amount)
                 total == add(vs.total_stake, f.amount)
             IN  IF deposit = Panic \/ stake = Panic \/ total = Panic
                 THEN Panicked(vs)
                 ELSE Done([vs EXCEPT
                          !.delegators = insert(@, key,
                              [delegator EXCEPT !.deposit_amount = deposit]),
                          !.validators = insert(@, f.validator_id,
                              [validator EXCEPT !.total_stake = stake]),
                          !.total_stake = total])

apply_DelegationDecreased(vs, f) ==
    LET key == <<f.delegator_id, f.validator_id>>
    IN  IF ~contains_key(vs.delegators, key) \/ ~contains_key(vs.validators, f.validator_id)
        THEN Panicked(vs)
        ELSE LET delegator == vs.delegators[key]
                 validator == vs.validators[f.validator_id]
                 deposit == sub(delegator.deposit_amount, f.amount)
                 stake == sub(validator.total_stake, f.amount)
                 total == sub(vs.total_stake, f.amount)
             IN  IF deposit = Panic \/ stake = Panic \/ total = Panic
                 THEN Panicked(vs)
                 ELSE Done([vs EXCEPT
                          !.delegators = insert(@, key,
                              [delegator EXCEPT !.deposit_amount = deposit]),
                          !.validators = insert(@, f.validator_id,
                              [validator EXCEPT !.total_stake = stake]),
                          !.total_stake = total])

apply_DelegatorUnbonded(vs, f) ==
    LET key == <<f.delegator_id, f.validator_id>>
    IN  IF \/ ~contains_key(vs.validator_id_to_delegator_id_set, f.validator_id)
           \/ ~contains_key(vs.delegator_id_to_validator_id_set, f.delegator_id)
           \/ ~contains_key(vs.delegators, key)
           \/ ~contains_key(vs.validators, f.validator_id)
        THEN Panicked(vs)
        ELSE LET delegator_id_set ==
                     vs.validator_id_to_delegator_id_set[f.validator_id] \ {f.delegator_id}
                 validator_id_set ==
                     vs.delegator_id_to_validator_id_set[f.delegator_id] \ {f.validator_id}
                 delegator == vs.delegators[key]
                 validator == vs.validators[f.validator_id]
                 stake == sub(validator.total_stake, delegator.deposit_amount)
                 total == sub(vs.total_stake, delegator.deposit_amount)
             IN  IF stake = Panic \/ total = Panic
                 THEN Panicked(vs)
                 ELSE Done([vs EXCEPT
                          !.validator_id_to_delegator_id_set =
                              IF Cardinality(delegator_id_set) > 0
                              THEN insert(@, f.validator_id, delegator_id_set)
                              ELSE remove(@, f.validator_id),
                          !.delegator_id_to_validator_id_set =
                              IF Cardinality(validator_id_set) > 0
                              THEN insert(@, f.delegator_id, validator_id_set)
                              ELSE remove(@, f.delegator_id),
                          !.delegators = remove(@, key),
                          !.validators = insert(@, f.validator_id,
                              [validator EXCEPT !.total_stake = stake]),
                          !.total_stake = total])

\* ValidatorSet::apply_staking_history, in the block environment e
apply_staking_history(vs, staking_history, e) ==
    LET f == staking_history.staking_fact
    IN  CASE f.kind = "ValidatorRegistered" -> apply_ValidatorRegistered(vs, f, e)
          [] f.kind = "StakeIncreased" -> apply_StakeIncreased(vs, f)
          [] f.kind = "StakeDecreased" -> apply_StakeDecreased(vs, f)
          [] f.kind = "ValidatorUnbonded" -> apply_ValidatorUnbonded(vs, f)
          [] f.kind = "ValidatorDelegationEnabled" -> apply_ValidatorDelegation(vs, f, TRUE)
          [] f.kind = "ValidatorDelegationDisabled" -> apply_ValidatorDelegation(vs, f, FALSE)
          [] f.kind = "DelegatorRegistered" -> apply_DelegatorRegistered(vs, f, e)
          [] f.kind = "DelegationIncreased" -> apply_DelegationIncreased(vs, f)
          [] f.kind = "DelegationDecreased" -> apply_DelegationDecreased(vs, f)
          [] f.kind = "DelegatorUnbonded" -> apply_DelegatorUnbonded(vs, f)

----------------------------------------------------------------------------
(* StakingHistories (staking.rs) *)

\* StakingHistories::new
StakingHistories_new == [histories |-> EmptyMap, start_index |-> 0, end_index |-> 0]

\* StakingHistories::get: the entry, present iff the index is a key
StakingHistories_get(sh, index) ==
    IF contains_key(sh.histories, index) THEN {sh.histories[index]} ELSE {}

\* StakingHistories::index_range
StakingHistories_index_range(sh) ==
    [start_index |-> sh.start_index, end_index |-> sh.end_index]

\* the index StakingHistories::append assigns
\* append taking end_index = 0 for the empty ledger
append_index_by_end_index(sh) ==
    IF sh.end_index = 0 THEN 0 ELSE sh.end_index + 1

append_index(sh) ==
    IF contains_key(sh.histories, 0) THEN sh.end_index + 1 ELSE 0

\* append that stores the entry at end_index and does not advance it
append_replacing(sh, staking_fact, e) ==
    [sh EXCEPT !.histories = insert(@, sh.end_index,
                   [staking_fact |-> staking_fact,
                    block_height |-> e.block_index,
                    timestamp |-> e.block_timestamp,
                    index |-> sh.end_index])]

\* StakingHistories::append: the ledger after the call
append(sh, staking_fact, e) ==
    LET index == append_index(sh)
    IN  [sh EXCEPT !.histories = insert(@, index,
                       [staking_fact |-> staking_fact,
                        block_height |-> e.block_index,
                        timestamp |-> e.block_timestamp,
                        index |-> index]),
                   !.end_index = index]

----------------------------------------------------------------------------
(* ValidatorSetHistories (validator_set.rs) *)

\* ValidatorSetHistories::new
ValidatorSetHistories_new == [histories |-> EmptyMap, start_index |-> 0, end_index |-> 0]

\* ValidatorSetOfEra::new (the validator list and the reward maps of the era are
\* not modelled)
ValidatorSetOfEra_new(era_number, staking_history_index, e) ==
    [validator_set |-> ValidatorSet_new(era_number),
     start_block_height |-> e.block_index,
     start_timestamp |-> e.block_timestamp,
     staking_history_index |-> staking_history_index,
     unprofitable_validator_id_set |-> {},
     valid_total_stake |-> 0,
     processing_status |-> [status |-> "CopyingFromLastEra",
                            copying_validator_index |-> 0,
                            copying_delegator_index |-> 0]]

\* ValidatorSetHistories::insert
ValidatorSetHistories_insert(vsh, era_number, validator_set) ==
    [vsh EXCEPT !.histories = insert(@, era_number, validator_set),
                !.end_index = IF era_number > @ THEN era_number ELSE @]

----------------------------------------------------------------------------
(* AppchainAnchor: staking entry points (staking.rs) *)

\* number of entries of the ledger
LedgerLen == Cardinality(DOMAIN staking_histories.histories)

\* the record of a contract call kept in `last`
Call(op, account_id, validator_id, appchain_id, amount, ok, index, transfer) ==
    [op |-> op, account_id |-> account_id, validator_id |-> validator_id,
     appchain_id |-> appchain_id, amount |-> amount, ok |-> ok,
     index |-> index, transfer |-> transfer]

\* AppchainAnchor::assert_validator_id
assert_validator_id(validator_id, vs) ==
    validator_id \in vs.validator_id_set

\* AppchainAnchor::assert_delegator_id
assert_delegator_id(delegator_id, validator_id, vs) ==
    contains_key(vs.delegators, <<delegator_id, validator_id>>)

\* AppchainAnchor::record_staking_fact on the loaded next validator set vs:
\* the ledger after the append, the set after the application, the index
\* record_staking_fact without the write of the next validator set
record_staking_fact_unsaved(staking_fact, vs) ==
    LET histories == append(staking_histories, staking_fact, env)
        index == histories.end_index
        applied == apply_staking_history(vs, histories.histories[index], env)
    IN  [ok |-> applied.ok, staking_histories |-> histories,
         next_validator_set |-> vs, index |-> index]

record_staking_fact(staking_fact, vs) ==
    LET histories == append(staking_histories, staking_fact, env)
        index == histories.end_index
        applied == apply_staking_history(vs, histories.histories[index], env)
    IN  [ok |-> applied.ok, staking_histories |-> histories,
         next_validator_set |-> applied.vs, index |-> index]

\* a call that panicked: nothing is written.  The history variable `last`
\* keeps the call only while the ledger is short; later it is a stuttering step
Rejected(call) ==
    /\ last' = IF LedgerLen < MaxLoggedFacts THEN call ELSE last
    /\ UNCHANGED <<staking_histories, next_validator_set, validator_account_id_mapping,
                   unbonded_stakes, validator_set_histories, env, overflow_checks,
                   rewards, decoder, ft_transfers, era_object>>

\* a call that completed after record_staking_fact returned r
Recorded(r, call) ==
    /\ staking_histories' = r.staking_histories
    /\ next_validator_set' = r.next_validator_set
    /\ last' = call
    /\ UNCHANGED <<validator_set_histories, env, overflow_checks, rewards, decoder,
                   ft_transfers, era_object>>

\* register_validator without the insert into validator_account_id_mapping
register_validator_unmapped(validator_id, validator_id_in_appchain, deposit_amount, can_be_delegated_to) ==
    /\ LedgerLen < MaxFacts
    /\ LET call(ok, index) == Call("register_validator", validator_id, "-",
                                   validator_id_in_appchain, deposit_amount, ok, index, 0)
           r == record_staking_fact(
                    [kind |-> "ValidatorRegistered",
                     validator_id |-> validator_id,
                     validator_id_in_appchain |-> validator_id_in_appchain,
                     amount |-> deposit_amount,
                     can_be_delegated_to |-> can_be_delegated_to],
                    next_validator_set)
       IN  IF /\ ~(validator_id \in next_validator_set.validator_id_set)
              /\ ~contains_key(unbonded_stakes, validator_id)
              /\ ~contains_key(validator_account_id_mapping, validator_id_in_appchain)
              /\ deposit_amount >= minimum_validator_deposit
              /\ r.ok
           THEN /\ Recorded(r, call(TRUE, r.index))
                /\ UNCHANGED <<validator_account_id_mapping, unbonded_stakes>>
           ELSE Rejected(call(FALSE, -1))

\* AppchainAnchor::register_validator
register_validator(validator_id, validator_id_in_appchain, deposit_amount, can_be_delegated_to) ==
    /\ LedgerLen < MaxFacts
    /\ LET call(ok, index) == Call("register_validator", validator_id, "-",
                                   validator_id_in_appchain, deposit_amount, ok, index, 0)
           r == record_staking_fact(
                    [kind |-> "ValidatorRegistered",
                     validator_id |-> validator_id,
                     validator_id_in_appchain |-> validator_id_in_appchain,
                     amount |-> deposit_amount,
                     can_be_delegated_to |-> can_be_delegated_to],
                    next_validator_set)
       IN  IF /\ ~(validator_id \in next_validator_set.validator_id_set)
              /\ ~contains_key(unbonded_stakes, validator_id)
              /\ ~contains_key(validator_account_id_mapping, validator_id_in_appchain)
              /\ deposit_amount >= minimum_validator_deposit
              /\ r.ok
           THEN /\ Recorded(r, call(TRUE, r.index))
                /\ validator_account_id_mapping' =
                       insert(validator_account_id_mapping, validator_id_in_appchain,
                              validator_id)
                /\ UNCHANGED unbonded_stakes
           ELSE Rejected(call(FALSE, -1))

\* AppchainAnchor::increase_stake
increase_stake(validator_id, amount) ==
    /\ LedgerLen < MaxFacts
    /\ LET call(ok, index) == Call("increase_stake", validator_id, "-", "-", amount,
                                   ok, index, 0)
           r == record_staking_fact(
                    [kind |-> "StakeIncreased", validator_id |-> validator_id,
                     amount |-> amount],
                    next_validator_set)
       IN  IF assert_validator_id(validator_id, next_validator_set) /\ r.ok
           THEN /\ Recorded(r, call(TRUE, r.index))
                /\ UNCHANGED <<validator_account_id_mapping, unbonded_stakes>>
           ELSE Rejected(call(FALSE, -1))

\* register_delegator that lets a delegator at the maximum add one validator
register_delegator_call_one_more(delegator_id, validator_id, deposit_amount) ==
    LET call(ok, index) == Call("register_delegator", delegator_id, validator_id, "-",
                                deposit_amount, ok, index, 0)
        d2v == next_validator_set.delegator_id_to_validator_id_set
        r == record_staking_fact(
                 [kind |-> "DelegatorRegistered", delegator_id |-> delegator_id,
                  validator_id |-> validator_id, amount |-> deposit_amount],
                 next_validator_set)
    IN  IF /\ ~contains_key(next_validator_set.delegators,
                            <<delegator_id, validator_id>>)
           /\ ~contains_key(unbonded_stakes, delegator_id)
           /\ (contains_key(d2v, delegator_id) =>
                   Cardinality(d2v[delegator_id]) <= maximum_validators_per_delegator)
           /\ deposit_amount >= minimum_delegator_deposit
           /\ r.ok
        THEN /\ Recorded(r, call(TRUE, r.index))
             /\ UNCHANGED <<validator_account_id_mapping, unbonded_stakes>>
        ELSE Rejected(call(FALSE, -1))

\* AppchainAnchor::register_delegator: the call
register_delegator_call(delegator_id, validator_id, deposit_amount) ==
    LET call(ok, index) == Call("register_delegator", delegator_id, validator_id, "-",
                                deposit_amount, ok, index, 0)
        d2v == next_validator_set.delegator_id_to_validator_id_set
        r == record_staking_fact(
                 [kind |-> "DelegatorRegistered", delegator_id |-> delegator_id,
                  validator_id |-> validator_id, amount |-> deposit_amount],
                 next_validator_set)
    IN  IF /\ ~contains_key(next_validator_set.delegators,
                            <<delegator_id, validator_id>>)
           /\ ~contains_key(unbonded_stakes, delegator_id)
           /\ (contains_key(d2v, delegator_id) =>
                   Cardinality(d2v[delegator_id]) < maximum_validators_per_delegator)
           /\ deposit_amount >= minimum_delegator_deposit
           /\ r.ok
        THEN /\ Recorded(r, call(TRUE, r.index))
             /\ UNCHANGED <<validator_account_id_mapping, unbonded_stakes>>
        ELSE Rejected(call(FALSE, -1))

\* register_delegator, offered while the ledger is shorter than MaxFacts
register_delegator(delegator_id, validator_id, deposit_amount) ==
    /\ LedgerLen < MaxFacts
    /\ register_delegator_call(delegator_id, validator_id, deposit_amount)

\* AppchainAnchor::increase_delegation
increase_delegation(delegator_id, validator_id, amount) ==
    /\ LedgerLen < MaxFacts
    /\ LET call(ok, index) == Call("increase_delegation", delegator_id, validator_id, "-",
                                   amount, ok, index, 0)
           r == record_staking_fact(
                    [kind |-> "DelegationIncreased", delegator_id |-> delegator_id,
                     validator_id |-> validator_id, amount |-> amount],
                    next_validator_set)
       IN  IF assert_delegator_id(delegator_id, validator_id, next_validator_set) /\ r.ok
           THEN /\ Recorded(r, call(TRUE, r.index))
                /\ UNCHANGED <<validator_account_id_mapping, unbonded_stakes>>
           ELSE Rejected(call(FALSE, -1))

----------------------------------------------------------------------------
(* StakingManager for AppchainAnchor (staking.rs) *)

\* the local vector `unbond_stakes` of decrease_stake, unbond_stake,
\* decrease_delegation and unbond_delegation after the push, from the stored map
\* stakes and the validator set histories era_histories
pushed_unbond_stakes(stakes, era_histories, account_id, index) ==
    Append(IF contains_key(stakes, account_id) THEN stakes[account_id] ELSE <<>>,
           [era_number |-> era_histories.end_index + 1,
            staking_history_index |-> index])

\* what the four functions leave in the stored map unbonded_stakes: the local
\* vector is dropped when the function returns, it is not written to the map
stored_unbonded_stakes(account_id, index) ==
    unbonded_stakes

\* the comparison against the delegator's minimum whatever the caller
floor_check_delegator_minimum(deposit_amount, amount, minimum) ==
    /\ sub(deposit_amount, amount) # Panic
    /\ sub(deposit_amount, amount) >= minimum_delegator_deposit

\* the value of `deposit_amount - amount.0 >= minimum` in decrease_stake and
\* decrease_delegation; a panic of the subtraction fails the assertion
floor_check(deposit_amount, amount, minimum) ==
    /\ sub(deposit_amount, amount) # Panic
    /\ sub(deposit_amount, amount) >= minimum

\* StakingManager::decrease_stake, called by validator_id
decrease_stake(validator_id, amount) ==
    /\ LedgerLen < MaxFacts
    /\ LET call(ok, index) == Call("decrease_stake", validator_id, "-", "-", amount,
                                   ok, index, 0)
           r == record_staking_fact(
                    [kind |-> "StakeDecreased", validator_id |-> validator_id,
                     amount |-> amount],
                    next_validator_set)
       IN  IF /\ assert_validator_id(validator_id, next_validator_set)
              /\ contains_key(next_validator_set.validators, validator_id)
              /\ floor_check(next_validator_set.validators[validator_id].deposit_amount,
                             amount, minimum_validator_deposit)
              /\ r.ok
           THEN /\ Recorded(r, call(TRUE, r.index))
                /\ unbonded_stakes' = stored_unbonded_stakes(validator_id, r.index)
                /\ UNCHANGED validator_account_id_mapping
           ELSE Rejected(call(FALSE, -1))

\* unbond_stake that also removes the validator's validator_id_in_appchain from
\* validator_account_id_mapping
unbond_stake_releasing(validator_id) ==
    /\ LedgerLen < MaxFacts
    /\ LET call(amount, ok, index) == Call("unbond_stake", validator_id, "-", "-", amount,
                                           ok, index, 0)
       IN  IF /\ assert_validator_id(validator_id, next_validator_set)
              /\ contains_key(next_validator_set.validators, validator_id)
           THEN LET validator == next_validator_set.validators[validator_id]
                    r == record_staking_fact(
                             [kind |-> "ValidatorUnbonded",
                              validator_id |-> validator_id,
                              amount |-> validator.deposit_amount],
                             next_validator_set)
                IN  IF r.ok
                    THEN /\ Recorded(r, call(validator.deposit_amount, TRUE, r.index))
                         /\ unbonded_stakes' = stored_unbonded_stakes(validator_id, r.index)
                         /\ validator_account_id_mapping' =
                                remove(validator_account_id_mapping,
                                       validator.validator_id_in_appchain)
                    ELSE Rejected(call(0, FALSE, -1))
           ELSE Rejected(call(0, FALSE, -1))

\* StakingManager::unbond_stake, called by validator_id
unbond_stake(validator_id) ==
    /\ LedgerLen < MaxFacts
    /\ LET call(amount, ok, index) == Call("unbond_stake", validator_id, "-", "-", amount,
                                           ok, index, 0)
       IN  IF /\ assert_validator_id(validator_id, next_validator_set)
              /\ contains_key(next_validator_set.validators, validator_id)
           THEN LET validator == next_validator_set.validators[validator_id]
                    r == record_staking_fact(
                             [kind |-> "ValidatorUnbonded",
                              validator_id |-> validator_id,
                              amount |-> validator.deposit_amount],
                             next_validator_set)
                IN  IF r.ok
                    THEN /\ Recorded(r, call(validator.deposit_amount, TRUE, r.index))
                         /\ unbonded_stakes' = stored_unbonded_stakes(validator_id, r.index)
                         /\ UNCHANGED validator_account_id_mapping
                    ELSE Rejected(call(0, FALSE, -1))
           ELSE Rejected(call(0, FALSE, -1))

\* StakingManager::enable_delegation and disable_delegation, called by validator_id
set_delegation(op, kind, validator_id) ==
    /\ LedgerLen < MaxFacts
    /\ LET call(ok, index) == Call(op, validator_id, "-", "-", 0, ok, index, 0)
           r == record_staking_fact([kind |-> kind, validator_id |-> validator_id],
                                    next_validator_set)
       IN  IF assert_validator_id(validator_id, next_validator_set) /\ r.ok
           THEN /\ Recorded(r, call(TRUE, r.index))
                /\ UNCHANGED <<validator_account_id_mapping, unbonded_stakes>>
           ELSE Rejected(call(FALSE, -1))

enable_delegation(validator_id) ==
    set_delegation("enable_delegation", "ValidatorDelegationEnabled", validator_id)

disable_delegation(validator_id) ==
    set_delegation("disable_delegation", "ValidatorDelegationDisabled", validator_id)

\* StakingManager::decrease_delegation, called by delegator_id
decrease_delegation(delegator_id, validator_id, amount) ==
    /\ LedgerLen < MaxFacts
    /\ LET call(ok, index) == Call("decrease_delegation", delegator_id, validator_id, "-",
                                   amount, ok, index, 0)
           key == <<delegator_id, validator_id>>
           r == record_staking_fact(
                    [kind |-> "DelegationDecreased", delegator_id |-> delegator_id,
                     validator_id |-> validator_id, amount |-> amount],
                    next_validator_set)
       IN  IF /\ assert_delegator_id(delegator_id, validator_id, next_validator_set)
              /\ contains_key(next_validator_set.delegators, key)
              /\ floor_check(next_validator_set.delegators[key].deposit_amount,
                             amount, minimum_delegator_deposit)
              /\ r.ok
           THEN /\ Recorded(r, call(TRUE, r.index))
                /\ unbonded_stakes' = stored_unbonded_stakes(delegator_id, r.index)
                /\ UNCHANGED validator_account_id_mapping
           ELSE Rejected(call(FALSE, -1))

\* StakingManager::unbond_delegation, called by delegator_id: the call
unbond_delegation_call(delegator_id, validator_id) ==
    LET call(amount, ok, index) == Call("unbond_delegation", delegator_id, validator_id,
                                        "-", amount, ok, index, 0)
        key == <<delegator_id, validator_id>>
    IN  IF /\ assert_delegator_id(delegator_id, validator_id, next_validator_set)
           /\ contains_key(next_validator_set.delegators, key)
        THEN LET delegator == next_validator_set.delegators[key]
                 r == record_staking_fact(
                          [kind |-> "DelegatorUnbonded",
                           delegator_id |-> delegator_id,
                           validator_id |-> validator_id,
                           amount |-> delegator.deposit_amount],
                          next_validator_set)
             IN  IF r.ok
                 THEN /\ Recorded(r, call(delegator.deposit_amount, TRUE, r.index))
                      /\ unbonded_stakes' = stored_unbonded_stakes(delegator_id, r.index)
                      /\ UNCHANGED validator_account_id_mapping
                 ELSE Rejected(call(0, FALSE, -1))
        ELSE Rejected(call(0, FALSE, -1))

\* unbond_delegation, offered while the ledger is shorter than MaxFacts
unbond_delegation(delegator_id, validator_id) ==
    /\ LedgerLen < MaxFacts
    /\ unbond_delegation_call(delegator_id, validator_id)

\* `if amount > 0 { ext_fungible_token::ft_transfer(receiver_id, amount, ...,
\* token contract, ...) }` of withdraw_stake and of the two reward withdrawals:
\* the promises that have not resolved, after the statement
ft_transfer(promises, receiver_id, amount, token) ==
    IF amount > 0
    THEN Append(promises, [receiver_id |-> receiver_id, amount |-> amount,
                           token |-> token])
    ELSE promises

\* the closure of withdraw_stake's for_each, for one reference: acc is the
\* pair (balance_to_withdraw, remained_stakes) so far, or a panic
withdraw_reference(acc, reference) ==
    IF \/ ~acc.ok
       \/ ~contains_key(validator_set_histories.histories, reference.era_number)
       \/ ~contains_key(staking_histories.histories, reference.staking_history_index)
    THEN [acc EXCEPT !.ok = FALSE]
    ELSE LET validator_set == validator_set_histories.histories[reference.era_number]
             staking_fact ==
                 staking_histories.histories[reference.staking_history_index].staking_fact
             unlock_period ==
                 IF staking_fact.kind \in {"StakeDecreased", "ValidatorUnbonded"}
                 THEN unlock_period_of_validator_deposit
                 ELSE unlock_period_of_delegator_deposit
         IN  IF staking_fact.kind \in {"StakeDecreased", "ValidatorUnbonded",
                                       "DelegationDecreased", "DelegatorUnbonded"}
             THEN IF validator_set.start_timestamp + unlock_period > env.block_timestamp
                  THEN LET balance == add(acc.balance_to_withdraw, staking_fact.amount)
                       IN  IF balance = Panic
                           THEN [acc EXCEPT !.ok = FALSE]
                           ELSE [acc EXCEPT !.balance_to_withdraw = balance]
                  ELSE [acc EXCEPT !.remained_stakes = Append(@, reference)]
             ELSE acc

\* unbonded_stake_references.iter().for_each(...) of withdraw_stake
RECURSIVE withdraw_references(_, _)
withdraw_references(acc, references) ==
    IF references = <<>>
    THEN acc
    ELSE withdraw_references(withdraw_reference(acc, Head(references)), Tail(references))

\* StakingManager::withdraw_stake
withdraw_stake(account_id) ==
    LET call(ok, transfer) == Call("withdraw_stake", account_id, "-", "-", 0, ok, -1,
                                   transfer)
    IN  IF contains_key(unbonded_stakes, account_id)
        THEN LET w == withdraw_references(
                          [ok |-> TRUE, balance_to_withdraw |-> 0,
                           remained_stakes |-> <<>>],
                          unbonded_stakes[account_id])
             IN  IF w.ok
                 THEN /\ unbonded_stakes' =
                             IF Len(w.remained_stakes) > 0
                             THEN insert(unbonded_stakes, account_id, w.remained_stakes)
                             ELSE remove(unbonded_stakes, account_id)
                      /\ ft_transfers' =
                             ft_transfer(ft_transfers, account_id,
                                         w.balance_to_withdraw, "oct_token")
                      /\ last' = call(TRUE, w.balance_to_withdraw)
                      /\ UNCHANGED <<staking_histories, next_validator_set,
                                     validator_account_id_mapping,
                                     validator_set_histories, env, overflow_checks,
                                     rewards, decoder, era_object>>
                 ELSE Rejected(call(FALSE, 0))
        ELSE /\ last' = call(TRUE, 0)
             /\ UNCHANGED <<staking_histories, next_validator_set,
                            validator_account_id_mapping, unbonded_stakes,
                            validator_set_histories, env, overflow_checks,
                            rewards, decoder, ft_transfers, era_object>>

----------------------------------------------------------------------------
(* The environment *)

\* a new era is stored: ValidatorSetHistories::insert of ValidatorSetOfEra::new
insert_validator_set(era_number) ==
    /\ validator_set_histories' =
           ValidatorSetHistories_insert(validator_set_histories, era_number,
               ValidatorSetOfEra_new(era_number, staking_histories.end_index, env))
    /\ last' = Call("insert_validator_set", "-", "-", "-", era_number, TRUE, -1, 0)
    /\ UNCHANGED <<staking_histories, next_validator_set, validator_account_id_mapping,
                   unbonded_stakes, env, overflow_checks, rewards, decoder,
                   ft_transfers, era_object>>

\* a later block
Tick ==
    /\ env.block_timestamp < MaxTime
    /\ env' = [block_index |-> env.block_index + 1,
               block_timestamp |-> env.block_timestamp + TimeStep]
    /\ last' = Call("tick", "-", "-", "-", 0, TRUE, -1, 0)
    /\ UNCHANGED <<staking_histories, next_validator_set, validator_account_id_mapping,
                   unbonded_stakes, validator_set_histories, overflow_checks,
                   rewards, decoder, ft_transfers, era_object>>

----------------------------------------------------------------------------
(* ValidatorSetProcessingStatus and ValidatorSetOfEra (validator_set.rs) *)

\* the query that also answers TRUE while the reward is being distributed
is_ready_or_distributing(processing_status) ==
    processing_status.status \in {"ReadyForDistributingReward", "DistributingReward"}

\* ValidatorSetProcessingStatus::is_ready_for_distributing_reward
is_ready_for_distributing_reward(processing_status) ==
    CASE processing_status.status = "CopyingFromLastEra" -> FALSE
      [] processing_status.status = "ApplyingStakingHistory" -> FALSE
      [] processing_status.status = "MakingValidatorList" -> FALSE
      [] processing_status.status = "ReadyForDistributingReward" -> TRUE
      [] processing_status.status = "DistributingReward" -> FALSE
      [] processing_status.status = "Completed" -> FALSE

\* the query on the processing status of the snapshot
is_ready_call ==
    /\ returned' =
           <<is_ready_for_distributing_reward(validator_set_of_era.processing_status)>>
    /\ last' = Call("is_ready_for_distributing_reward", "-", "-", "-", 0, TRUE, -1, 0)
    /\ UNCHANGED <<stored, env, overflow_checks, rewards, decoder, ft_transfers,
                   validator_set_of_era>>

\* ValidatorSetOfEra::set_unprofitable_validator_ids
set_unprofitable_validator_ids(unprofitable_validator_ids) ==
    /\ validator_set_of_era' =
           [validator_set_of_era EXCEPT !.unprofitable_validator_id_set =
                @ \cup {unprofitable_validator_ids[i] :
                           i \in DOMAIN unprofitable_validator_ids}]
    /\ last' = Call("set_unprofitable_validator_ids", "-", "-", "-",
                    Len(unprofitable_validator_ids), TRUE, -1, 0)
    /\ UNCHANGED <<stored, env, overflow_checks, rewards, decoder, ft_transfers,
                   returned>>

\* the for_each of calculate_valid_total_stake over the ids left to visit: the
\* value of valid_total_stake, or a panic (unwrap of a validator that is not in
\* the set, or a subtraction that overflows); a panic is the outcome whatever the
\* order of the visit
RECURSIVE valid_total_stake_less(_, _, _)
valid_total_stake_less(valid_total_stake, vs, ids) ==
    IF ids = {}
    THEN valid_total_stake
    ELSE IF \E v_id \in ids : ~contains_key(vs.validators, v_id)
    THEN Panic
    ELSE LET v_id == CHOOSE v \in ids : TRUE
             rest == sub(valid_total_stake, vs.validators[v_id].total_stake)
         IN  IF rest = Panic
             THEN Panic
             ELSE valid_total_stake_less(rest, vs, ids \ {v_id})

\* the calculation without the subtraction
calculate_valid_total_stake_of_all ==
    /\ validator_set_of_era' =
           [validator_set_of_era EXCEPT !.valid_total_stake =
                validator_set_of_era.validator_set.total_stake]
    /\ last' = Call("calculate_valid_total_stake", "-", "-", "-", 0, TRUE, -1, 0)
    /\ UNCHANGED <<stored, env, overflow_checks, rewards, decoder, ft_transfers,
                   returned>>

\* ValidatorSetOfEra::calculate_valid_total_stake
calculate_valid_total_stake ==
    LET call(ok) == Call("calculate_valid_total_stake", "-", "-", "-", 0, ok, -1, 0)
        valid_total_stake ==
            valid_total_stake_less(validator_set_of_era.validator_set.total_stake,
                                   validator_set_of_era.validator_set,
                                   validator_set_of_era.unprofitable_validator_id_set)
    IN  IF valid_total_stake # Panic
        THEN /\ validator_set_of_era' =
                    [validator_set_of_era EXCEPT !.valid_total_stake = valid_total_stake]
             /\ last' = call(TRUE)
             /\ UNCHANGED <<stored, env, overflow_checks, rewards, decoder,
                            ft_transfers, returned>>
        ELSE Rejected(call(FALSE))

----------------------------------------------------------------------------
(* Withdrawal of rewards (staking.rs).  Era numbers are u64; EraModulus    *)
(* stands for 2^64.                                                        *)

EraModulus == 256

\* `end_era - maximum_era_count_of_unwithdrawn_reward` on u64
sub_u64(x, y) ==
    IF x - y < 0
    THEN (IF overflow_checks THEN Panic ELSE (x - y) % EraModulus)
    ELSE x - y

\* the loop `for era_number in start_era..end_era` of withdraw_validator_rewards and
\* withdraw_delegator_rewards over the eras that have an entry, in ascending order
\* (the other eras of the range change nothing): acc holds reward_to_withdraw and
\* the map; key[e] is the key of era e
RECURSIVE withdraw_rewards_loop(_, _, _)
withdraw_rewards_loop(acc, eras, key) ==
    IF eras = {} \/ ~acc.ok
    THEN acc
    ELSE LET era_number == CHOOSE e \in eras : \A x \in eras : e <= x
             reward == add(acc.reward_to_withdraw, acc.unwithdrawn[key[era_number]])
         IN  IF reward = Panic
             THEN [acc EXCEPT !.ok = FALSE]
             ELSE withdraw_rewards_loop(
                      [acc EXCEPT !.reward_to_withdraw = reward,
                                  !.unwithdrawn = remove(@, key[era_number])],
                      eras \ {era_number}, key)

\* the outcome of either function on the map unwithdrawn with the keys key[e]
withdraw_rewards(unwithdrawn, key) ==
    LET end_era == validator_set_histories.end_index
        start_era == sub_u64(end_era, maximum_era_count_of_unwithdrawn_reward)
    IN  IF start_era = Panic
        THEN [ok |-> FALSE, reward_to_withdraw |-> 0, unwithdrawn |-> unwithdrawn]
        ELSE withdraw_rewards_loop(
                 [ok |-> TRUE, reward_to_withdraw |-> 0, unwithdrawn |-> unwithdrawn],
                 {e \in start_era..(end_era - 1) : contains_key(unwithdrawn, key[e])},
                 key)

\* StakingManager::withdraw_validator_rewards
withdraw_validator_rewards(validator_id) ==
    LET call(ok, transfer) == Call("withdraw_validator_rewards", validator_id, "-", "-",
                                   0, ok, -1, transfer)
        key == [era_number \in 0..(EraModulus - 1) |-> <<era_number, validator_id>>]
        w == withdraw_rewards(unwithdrawn_validator_rewards, key)
    IN  IF w.ok
        THEN /\ unwithdrawn_validator_rewards' = w.unwithdrawn
             /\ ft_transfers' =
                    ft_transfer(ft_transfers, validator_id, w.reward_to_withdraw,
                                "wrapped_appchain_token")
             /\ last' = call(TRUE, w.reward_to_withdraw)
             /\ UNCHANGED <<stored, env, overflow_checks, unwithdrawn_delegator_rewards,
                            decoder, era_object>>
        ELSE Rejected(call(FALSE, 0))

\* StakingManager::withdraw_delegator_rewards
withdraw_delegator_rewards(delegator_id, validator_id) ==
    LET call(ok, transfer) == Call("withdraw_delegator_rewards", delegator_id,
                                   validator_id, "-", 0, ok, -1, transfer)
        key == [era_number \in 0..(EraModulus - 1) |->
                   <<era_number, delegator_id, validator_id>>]
        w == withdraw_rewards(unwithdrawn_delegator_rewards, key)
    IN  IF w.ok
        THEN /\ unwithdrawn_delegator_rewards' = w.unwithdrawn
             /\ ft_transfers' =
                    ft_transfer(ft_transfers, delegator_id, w.reward_to_withdraw,
                                "wrapped_appchain_token")
             /\ last' = call(TRUE, w.reward_to_withdraw)
             /\ UNCHANGED <<stored, env, overflow_checks, unwithdrawn_validator_rewards,
                            decoder, era_object>>
        ELSE Rejected(call(FALSE, 0))

\* the first ft_transfer promise resolves, with success or with failure: the
\* functions attach no callback to it, so the contract runs no code
ft_transfer_resolved(ok) ==
    /\ ft_transfers # <<>>
    /\ ft_transfers' = Tail(ft_transfers)
    /\ last' = Call("ft_transfer", Head(ft_transfers).receiver_id, "-", "-", 0, ok, -1,
                    Head(ft_transfers).amount)
    /\ UNCHANGED <<stored, env, overflow_checks, rewards, decoder, era_object>>

----------------------------------------------------------------------------
(* The message decoder (message_decoder.rs).  The wire form is kept at the  *)
(* level of its fields: an envelope is a sequence of entries, complete or   *)
(* cut short; an entry has a u64 nonce, the index of its payload type and a *)
(* payload, the sequence of the borsh-encoded values [type, value].         *)

\* stand-in for 2^32, the modulus of `m.nonce as u32`
U32Modulus == 16

\* enum PayloadType, in declaration order: the SCALE index of a variant is its
\* position minus one
PayloadType == <<"Lock", "BurnAsset", "PlanNewEra", "EraPayout">>

\* borsh serialization of the four payload structs, field by field
borsh_LockPayload(p) ==
    << [type |-> "String", value |-> p.owner_id_in_appchain],
       [type |-> "String", value |-> p.receiver_id_in_near],
       [type |-> "u128", value |-> p.amount] >>

borsh_BurnAssetPayload(p) ==
    << [type |-> "String", value |-> p.symbol],
       [type |-> "String", value |-> p.owner_id_in_appchain],
       [type |-> "String", value |-> p.receiver_id_in_near],
       [type |-> "u128", value |-> p.amount] >>

borsh_PlanNewEraPayload(p) ==
    << [type |-> "u32", value |-> p.new_planned_era] >>

borsh_EraPayoutPayload(p) ==
    << [type |-> "u32", value |-> p.era],
       [type |-> "u128", value |-> p.payout],
       [type |-> "Vec<String>", value |-> p.exclude] >>

\* the field types of the payload struct of a payload type
payload_schema(payload_type) ==
    CASE payload_type = "Lock" -> <<"String", "String", "u128">>
      [] payload_type = "BurnAsset" -> <<"String", "String", "String", "u128">>
      [] payload_type = "PlanNewEra" -> <<"u32">>
      [] payload_type = "EraPayout" -> <<"u32", "u128", "Vec<String>">>

\* BorshDeserialize::deserialize(&mut &m.payload[..]): the values of the fields of
\* the schema read from the front of the payload, an error when a value is missing
\* or of another type; what follows the last field is not looked at
borsh_deserialize(schema, payload) ==
    IF /\ Len(payload) >= Len(schema)
       /\ \A i \in 1..Len(schema) : payload[i].type = schema[i]
    THEN [ok |-> TRUE, fields |-> [i \in 1..Len(schema) |-> payload[i].value]]
    ELSE [ok |-> FALSE, fields |-> <<>>]

\* Decode::decode of Vec<RawMessage>: the entries of a complete envelope with the
\* payload type of their index, an error when the envelope is cut short or an
\* index names no variant
scale_decode(encoded) ==
    IF /\ encoded.complete
       /\ \A i \in 1..Len(encoded.entries) :
              encoded.entries[i].payload_type_index \in 0..(Len(PayloadType) - 1)
    THEN [ok |-> TRUE,
          raw_messages |->
              [i \in 1..Len(encoded.entries) |->
                  [nonce |-> encoded.entries[i].nonce,
                   payload_type |-> PayloadType[encoded.entries[i].payload_type_index + 1],
                   payload |-> encoded.entries[i].payload]]]
    ELSE [ok |-> FALSE, raw_messages |-> <<>>]

\* the AppchainEvent built from the fields of a payload
appchain_event(payload_type, fields) ==
    CASE payload_type = "BurnAsset" ->
             [event |-> "NearFungibleTokenBurnt",
              symbol |-> fields[1],
              owner_id_in_appchain |-> fields[2],
              receiver_id_in_near |-> fields[3],
              amount |-> fields[4]]
      [] payload_type = "Lock" ->
             [event |-> "NativeTokenLocked",
              owner_id_in_appchain |-> fields[1],
              receiver_id_in_near |-> fields[2],
              amount |-> fields[3]]
      [] payload_type = "PlanNewEra" ->
             [event |-> "EraSwitchPlaned", era_number |-> fields[1]]
      [] payload_type = "EraPayout" ->
             [event |-> "EraRewardConcluded",
              era_number |-> fields[1],
              unprofitable_validator_ids |-> fields[3]]

\* the closure of decode applied to one RawMessage: the message, or the panic of
\* payload_result.unwrap()
decode_message(m) ==
    LET payload_result == borsh_deserialize(payload_schema(m.payload_type), m.payload)
    IN  IF payload_result.ok
        THEN [ok |-> TRUE,
              message |-> [nonce |-> m.nonce % U32Modulus,
                           appchain_event |->
                               appchain_event(m.payload_type, payload_result.fields)]]
        ELSE [ok |-> FALSE, message |-> [nonce |-> 0]]

\* the messages of the entries that decode, the others left out
RECURSIVE decode_messages_skipping(_)
decode_messages_skipping(raw_messages) ==
    IF raw_messages = <<>>
    THEN [ok |-> TRUE, messages |-> <<>>]
    ELSE LET first == decode_message(Head(raw_messages))
             rest == decode_messages_skipping(Tail(raw_messages))
         IN  [ok |-> TRUE,
              messages |-> (IF first.ok THEN <<first.message>> ELSE <<>>)
                           \o rest.messages]

\* the messages collected in the reverse order
RECURSIVE decode_messages_reversed(_)
decode_messages_reversed(raw_messages) ==
    IF raw_messages = <<>>
    THEN [ok |-> TRUE, messages |-> <<>>]
    ELSE LET first == decode_message(Head(raw_messages))
             rest == decode_messages_reversed(Tail(raw_messages))
         IN  IF first.ok /\ rest.ok
             THEN [ok |-> TRUE, messages |-> rest.messages \o <<first.message>>]
             ELSE [ok |-> FALSE, messages |-> <<>>]

\* decoded_messages.iter().map(...).collect(): the messages in order, or the panic
\* of the first entry that fails
RECURSIVE decode_messages(_)
decode_messages(raw_messages) ==
    IF raw_messages = <<>>
    THEN [ok |-> TRUE, messages |-> <<>>]
    ELSE LET first == decode_message(Head(raw_messages))
             rest == decode_messages(Tail(raw_messages))
         IN  IF first.ok /\ rest.ok
             THEN [ok |-> TRUE, messages |-> <<first.message>> \o rest.messages]
             ELSE [ok |-> FALSE, messages |-> <<>>]

\* ProofDecoder::decode
decode(encoded) ==
    LET decoded_messages == scale_decode(encoded)
    IN  IF decoded_messages.ok
        THEN decode_messages(decoded_messages.raw_messages)
        ELSE [ok |-> FALSE, messages |-> <<>>]

\* a call of decode on the stored argument
decode_call ==
    /\ ~decoded.called
    /\ decoded' = [called |-> TRUE, ok |-> decode(encoded_message).ok,
                   messages |-> decode(encoded_message).messages]
    /\ last' = Call("decode", "-", "-", "-", 0, decode(encoded_message).ok, -1, 0)
    /\ UNCHANGED <<stored, env, overflow_checks, rewards, encoded_message,
                   ft_transfers, era_object>>

\* no query has returned; a returned value v is held as <<v>>
NotReturned == <<>>

\* no call of decode
NoMessage == [complete |-> TRUE, entries |-> <<>>]
NotDecoded == [called |-> FALSE, ok |-> FALSE, messages |-> <<>>]

----------------------------------------------------------------------------
(* The contract after construction *)

Init ==
    /\ staking_histories = StakingHistories_new
    /\ next_validator_set = ValidatorSet_new(0)
    /\ validator_account_id_mapping = EmptyMap
    /\ unbonded_stakes = EmptyMap
    /\ validator_set_histories = ValidatorSetHistories_new
    /\ env = [block_index |-> 0, block_timestamp |-> 0]
    /\ overflow_checks \in BOOLEAN
    /\ last = Call("new", "-", "-", "-", 0, TRUE, -1, 0)
    /\ unwithdrawn_validator_rewards = EmptyMap
    /\ unwithdrawn_delegator_rewards = EmptyMap
    /\ encoded_message = NoMessage
    /\ decoded = NotDecoded
    /\ ft_transfers = <<>>
    /\ validator_set_of_era = ValidatorSetOfEra_new(0, 0, env)
    /\ returned = NotReturned

Next ==
    \/ \E v \in AccountIds, x \in AppchainIds, amount \in Amounts, c \in DelegationFlags :
           register_validator(v, x, amount, c)
    \/ \E v \in AccountIds, amount \in IncreaseAmounts : increase_stake(v, amount)
    \/ \E d \in AccountIds, v \in AccountIds, amount \in Amounts :
           register_delegator(d, v, amount)
    \/ \E d \in AccountIds, v \in AccountIds, amount \in IncreaseAmounts :
           increase_delegation(d, v, amount)
    \/ \E v \in AccountIds, amount \in Amounts : decrease_stake(v, amount)
    \/ \E v \in AccountIds : unbond_stake(v)
    \/ \E v \in AccountIds : enable_delegation(v)
    \/ \E v \in AccountIds : disable_delegation(v)
    \/ \E d \in AccountIds, v \in AccountIds, amount \in Amounts :
           decrease_delegation(d, v, amount)
    \/ \E d \in AccountIds, v \in AccountIds : unbond_delegation(d, v)

\* the staking operations on the contract after construction, in one block
Spec == Init /\ [][Next]_vars

----------------------------------------------------------------------------
(* Withdrawal of unbonded stake.  withdraw_stake reads the queue of its    *)
(* account, the ledger entries and the eras the queue refers to, and the   *)
(* clock.  The contract starts where account "a" has registered as a       *)
(* validator, delegated to itself, and decreased both positions; its queue *)
(* holds the two references decrease_stake and decrease_delegation push.   *)

WithdrawFacts ==
    << [kind |-> "ValidatorRegistered", validator_id |-> "a",
        validator_id_in_appchain |-> "x", amount |-> 11, can_be_delegated_to |-> TRUE],
       [kind |-> "DelegatorRegistered", delegator_id |-> "a", validator_id |-> "a",
        amount |-> 11],
       [kind |-> "StakeDecreased", validator_id |-> "a", amount |-> 1],
       [kind |-> "DelegationDecreased", delegator_id |-> "a", validator_id |-> "a",
        amount |-> 10] >>

\* the ledger and the next validator set after the calls that record facts[1..n]
RECURSIVE Recorded_facts(_, _, _)
Recorded_facts(facts, n, e) ==
    IF n = 0
    THEN [staking_histories |-> StakingHistories_new,
          next_validator_set |-> ValidatorSet_new(0)]
    ELSE LET before == Recorded_facts(facts, n - 1, e)
             histories == append(before.staking_histories, facts[n], e)
         IN  [staking_histories |-> histories,
              next_validator_set |->
                  apply_staking_history(before.next_validator_set,
                                        histories.histories[histories.end_index], e).vs]

InitWithdraw ==
    /\ env = [block_index |-> 0, block_timestamp |-> 0]
    /\ overflow_checks \in BOOLEAN
    /\ LET r == Recorded_facts(WithdrawFacts, Len(WithdrawFacts), env)
       IN  /\ staking_histories = r.staking_histories
           /\ next_validator_set = r.next_validator_set
    /\ validator_account_id_mapping = insert(EmptyMap, "x", "a")
    /\ validator_set_histories = ValidatorSetHistories_new
    /\ LET first == insert(EmptyMap, "a",
                        pushed_unbond_stakes(EmptyMap, ValidatorSetHistories_new, "a", 2))
       IN  unbonded_stakes =
               insert(first, "a",
                      pushed_unbond_stakes(first, ValidatorSetHistories_new, "a", 3))
    /\ last = Call("new", "-", "-", "-", 0, TRUE, -1, 0)
    /\ unwithdrawn_validator_rewards = EmptyMap
    /\ unwithdrawn_delegator_rewards = EmptyMap
    /\ encoded_message = NoMessage
    /\ decoded = NotDecoded
    /\ ft_transfers = <<>>
    /\ validator_set_of_era = ValidatorSetOfEra_new(0, 0, env)
    /\ returned = NotReturned

NextWithdraw ==
    \/ \E a \in AccountIds : withdraw_stake(a)
    \/ \E era \in 0..MaxEra : insert_validator_set(era)
    \/ Tick

SpecWithdraw == InitWithdraw /\ [][NextWithdraw]_vars

----------------------------------------------------------------------------
(* Withdrawal of rewards.  The contract starts with the eras 0..end_era in  *)
(* its validator set histories and with rewards of validator "a", and of    *)
(* delegator "b" of "a", left unwithdrawn for some eras up to end_era.      *)

\* the number of the last era the histories may reach
MaxRewardEra == 87

\* the last era of the histories at the start
EndEras == {1, 84, 85, 86}

\* the eras that may hold a reward of the validator, and of the delegator
ValidatorRewardEras == {0, 1, 2, 85, 86}
DelegatorRewardEras == {0, 85}

\* the reward left for an era
reward_of(era_number) == 1 + (era_number % 3)

\* the validator set histories after the eras 0..end_era were inserted
Inserted_eras(end_era, e) ==
    [histories |-> [era_number \in 0..end_era |-> ValidatorSetOfEra_new(era_number, 0, e)],
     start_index |-> 0,
     end_index |-> end_era]

InitRewards ==
    /\ staking_histories = StakingHistories_new
    /\ next_validator_set = ValidatorSet_new(0)
    /\ validator_account_id_mapping = EmptyMap
    /\ unbonded_stakes = EmptyMap
    /\ env = [block_index |-> 0, block_timestamp |-> 0]
    /\ overflow_checks \in BOOLEAN
    /\ last = Call("new", "-", "-", "-", 0, TRUE, -1, 0)
    /\ encoded_message = NoMessage
    /\ decoded = NotDecoded
    /\ ft_transfers = <<>>
    /\ validator_set_of_era = ValidatorSetOfEra_new(0, 0, env)
    /\ returned = NotReturned
    /\ \E end_era \in EndEras :
           /\ validator_set_histories = Inserted_eras(end_era, env)
           /\ \E eras \in SUBSET {e \in ValidatorRewardEras : e <= end_era} :
                  unwithdrawn_validator_rewards =
                      [k \in eras \X {"a"} |-> reward_of(k[1])]
           /\ \E eras \in SUBSET {e \in DelegatorRewardEras : e <= end_era} :
                  unwithdrawn_delegator_rewards =
                      [k \in eras \X {"b"} \X {"a"} |-> reward_of(k[1])]

\* the next era is stored
next_era ==
    /\ validator_set_histories.end_index < MaxRewardEra
    /\ insert_validator_set(validator_set_histories.end_index + 1)

NextRewards ==
    \/ \E v \in AccountIds : withdraw_validator_rewards(v)
    \/ \E d \in AccountIds, v \in AccountIds : withdraw_delegator_rewards(d, v)
    \/ next_era

SpecRewards == InitRewards /\ [][NextRewards]_vars

----------------------------------------------------------------------------
(* Decoding.  The argument of decode is drawn from the envelopes of up to   *)
(* MaxMessages entries, complete or cut short, whose payloads are the       *)
(* encodings of one payload of each type and one encoding cut short.        *)

\* the longest envelope
MaxMessages == 2

\* nonces below and above 2^32
Nonces == {1, U32Modulus + 1}

LockPayloads ==
    {[owner_id_in_appchain |-> "0xa", receiver_id_in_near |-> "a", amount |-> 5]}
BurnAssetPayloads ==
    {[symbol |-> "usdc", owner_id_in_appchain |-> "0xb", receiver_id_in_near |-> "b",
      amount |-> 6]}
PlanNewEraPayloads == {[new_planned_era |-> 3]}
EraPayoutPayloads == {[era |-> 2, payout |-> 7, exclude |-> <<"0xa">>]}

\* an encoding that ends before its last field
CutShort(payload) == SubSeq(payload, 1, Len(payload) - 1)

Payloads ==
    {borsh_LockPayload(p) : p \in LockPayloads}
    \cup {borsh_BurnAssetPayload(p) : p \in BurnAssetPayloads}
    \cup {borsh_PlanNewEraPayload(p) : p \in PlanNewEraPayloads}
    \cup {borsh_EraPayoutPayload(p) : p \in EraPayoutPayloads}
    \cup {CutShort(borsh_LockPayload(p)) : p \in LockPayloads}

\* the entries of an envelope; the index Len(PayloadType) names no payload type
RawEntries ==
    [nonce : Nonces, payload_type_index : 0..Len(PayloadType), payload : Payloads]

InitDecode ==
    /\ staking_histories = StakingHistories_new
    /\ next_validator_set = ValidatorSet_new(0)
    /\ validator_account_id_mapping = EmptyMap
    /\ unbonded_stakes = EmptyMap
    /\ validator_set_histories = ValidatorSetHistories_new
    /\ env = [block_index |-> 0, block_timestamp |-> 0]
    /\ overflow_checks = TRUE
    /\ last = Call("new", "-", "-", "-", 0, TRUE, -1, 0)
    /\ unwithdrawn_validator_rewards = EmptyMap
    /\ unwithdrawn_delegator_rewards = EmptyMap
    /\ \E n \in 0..MaxMessages, complete \in BOOLEAN :
           \E entries \in [1..n -> RawEntries] :
               encoded_message = [complete |-> complete, entries |-> entries]
    /\ decoded = NotDecoded
    /\ ft_transfers = <<>>
    /\ validator_set_of_era = ValidatorSetOfEra_new(0, 0, env)
    /\ returned = NotReturned

NextDecode == decode_call

SpecDecode == InitDecode /\ [][NextDecode]_vars

----------------------------------------------------------------------------
(* The ledger under every operation of the contract: the contract with a    *)
(* ledger of three entries and a queue takes further staking calls, the     *)
(* withdrawals, new eras and the clock.                                     *)

\* the contract after the calls that recorded the first three of WithdrawFacts
InitLedger ==
    /\ env = [block_index |-> 0, block_timestamp |-> 0]
    /\ overflow_checks \in BOOLEAN
    /\ LET r == Recorded_facts(WithdrawFacts, Len(WithdrawFacts) - 1, env)
       IN  /\ staking_histories = r.staking_histories
           /\ next_validator_set = r.next_validator_set
    /\ validator_account_id_mapping = insert(EmptyMap, "x", "a")
    /\ validator_set_histories = ValidatorSetHistories_new
    /\ unbonded_stakes =
           insert(EmptyMap, "a",
                  pushed_unbond_stakes(EmptyMap, ValidatorSetHistories_new, "a", 2))
    /\ last = Call("new", "-", "-", "-", 0, TRUE, -1, 0)
    /\ unwithdrawn_validator_rewards = EmptyMap
    /\ unwithdrawn_delegator_rewards = EmptyMap
    /\ encoded_message = NoMessage
    /\ decoded = NotDecoded
    /\ ft_transfers = <<>>
    /\ validator_set_of_era = ValidatorSetOfEra_new(0, 0, env)
    /\ returned = NotReturned

NextLedger ==
    \/ Next
    \/ NextWithdraw
    \/ \E v \in AccountIds : withdraw_validator_rewards(v)
    \/ \E d \in AccountIds, v \in AccountIds : withdraw_delegator_rewards(d, v)

SpecLedger == InitLedger /\ [][NextLedger]_vars

----------------------------------------------------------------------------
(* Delegation to many validators.  The contract starts with one validator   *)
(* more than maximum_validators_per_delegator registered and with delegator *)
(* "d" delegating to all but one or two of them; "d" and "e" register and   *)
(* unbond delegations.                                                      *)

\* the calls offered after the start
MaxDelegationCalls == 2

ManyValidators ==
    << "v01", "v02", "v03", "v04", "v05", "v06", "v07", "v08", "v09",
       "v10", "v11", "v12", "v13", "v14", "v15", "v16", "v17" >>

DelegatorIds == {"d", "e"}

\* the validators named in the calls
RegisterTargets == {"v01", "v16", "v17"}
UnbondTargets == {"v01", "v16"}

\* registrations of the validators, then delegations of "d" to the first n of them
DelegationFacts(n) ==
    [i \in 1..Len(ManyValidators) |->
        [kind |-> "ValidatorRegistered", validator_id |-> ManyValidators[i],
         validator_id_in_appchain |-> ManyValidators[i],
         amount |-> minimum_validator_deposit, can_be_delegated_to |-> TRUE]]
    \o [i \in 1..n |->
        [kind |-> "DelegatorRegistered", delegator_id |-> "d",
         validator_id |-> ManyValidators[i], amount |-> minimum_delegator_deposit]]

InitDelegations ==
    /\ env = [block_index |-> 0, block_timestamp |-> 0]
    /\ overflow_checks \in BOOLEAN
    /\ \E n \in {maximum_validators_per_delegator - 1, maximum_validators_per_delegator} :
           LET r == Recorded_facts(DelegationFacts(n), Len(DelegationFacts(n)), env)
           IN  /\ staking_histories = r.staking_histories
               /\ next_validator_set = r.next_validator_set
    /\ validator_account_id_mapping =
           [v \in {ManyValidators[i] : i \in DOMAIN ManyValidators} |-> v]
    /\ validator_set_histories = ValidatorSetHistories_new
    /\ unbonded_stakes = EmptyMap
    /\ last = Call("new", "-", "-", "-", 0, TRUE, -1, 0)
    /\ unwithdrawn_validator_rewards = EmptyMap
    /\ unwithdrawn_delegator_rewards = EmptyMap
    /\ encoded_message = NoMessage
    /\ decoded = NotDecoded
    /\ ft_transfers = <<>>
    /\ validator_set_of_era = ValidatorSetOfEra_new(0, 0, env)
    /\ returned = NotReturned

NextDelegations ==
    /\ LedgerLen < Len(ManyValidators) + maximum_validators_per_delegator
                   + MaxDelegationCalls
    /\ \/ \E d \in DelegatorIds, v \in RegisterTargets :
              register_delegator_call(d, v, minimum_delegator_deposit)
       \/ \E d \in DelegatorIds, v \in UnbondTargets : unbond_delegation_call(d, v)

SpecDelegations == InitDelegations /\ [][NextDelegations]_vars

----------------------------------------------------------------------------
(* Withdrawals and their transfers.  The contract starts with a queue, or   *)
(* with rewards left unwithdrawn; the accounts withdraw, eras are stored    *)
(* and the ft_transfer promises resolve.                                    *)

InitTransfers == InitWithdraw \/ InitRewards

NextTransfers ==
    \/ \E a \in AccountIds : withdraw_stake(a)
    \/ \E v \in AccountIds : withdraw_validator_rewards(v)
    \/ \E d \in AccountIds, v \in AccountIds : withdraw_delegator_rewards(d, v)
    \/ \E era \in 0..MaxEra : insert_validator_set(era)
    \/ \E ok \in BOOLEAN : ft_transfer_resolved(ok)

SpecTransfers == InitTransfers /\ [][NextTransfers]_vars

----------------------------------------------------------------------------
(* The snapshot of an era.  The snapshot holds a validator set that the     *)
(* staking calls can produce and is in any processing status; the status is *)
(* queried, unprofitable validators are set and the valid total stake is    *)
(* calculated.                                                              *)

\* the cursors of a processing status run up to this
MaxCursor == 2

\* the ids given to one call of set_unprofitable_validator_ids are at most this many
MaxUnprofitable == 2

ProcessingStatuses ==
    [status : {"CopyingFromLastEra"}, copying_validator_index : 0..MaxCursor,
     copying_delegator_index : 0..MaxCursor]
    \cup [status : {"ApplyingStakingHistory"}, applying_index : 0..MaxCursor]
    \cup [status : {"MakingValidatorList"}, making_index : 0..MaxCursor]
    \cup [status : {"ReadyForDistributingReward"}]
    \cup [status : {"DistributingReward"}, distributing_validator_index : 0..MaxCursor,
          distributing_delegator_index : 0..MaxCursor]
    \cup [status : {"Completed"}]

\* facts recorded by register_validator and register_delegator
EraFacts ==
    << [kind |-> "ValidatorRegistered", validator_id |-> "a",
        validator_id_in_appchain |-> "x", amount |-> 10, can_be_delegated_to |-> TRUE],
       [kind |-> "ValidatorRegistered", validator_id |-> "b",
        validator_id_in_appchain |-> "y", amount |-> 11, can_be_delegated_to |-> TRUE],
       [kind |-> "DelegatorRegistered", delegator_id |-> "b", validator_id |-> "a",
        amount |-> 1] >>

\* facts recorded by register_validator and, in a build without overflow checks,
\* by a decrease_stake above the deposit
WrappedEraFacts ==
    << [kind |-> "ValidatorRegistered", validator_id |-> "a",
        validator_id_in_appchain |-> "x", amount |-> 10, can_be_delegated_to |-> TRUE],
       [kind |-> "ValidatorRegistered", validator_id |-> "b",
        validator_id_in_appchain |-> "y", amount |-> 10, can_be_delegated_to |-> TRUE],
       [kind |-> "StakeDecreased", validator_id |-> "a", amount |-> 11] >>

UnprofitableIds == {"a", "b", "c"}

UnprofitableIdLists ==
    UNION {[1..n -> UnprofitableIds] : n \in 0..MaxUnprofitable}

InitEra ==
    /\ staking_histories = StakingHistories_new
    /\ next_validator_set = ValidatorSet_new(0)
    /\ validator_account_id_mapping = EmptyMap
    /\ unbonded_stakes = EmptyMap
    /\ validator_set_histories = ValidatorSetHistories_new
    /\ env = [block_index |-> 0, block_timestamp |-> 0]
    /\ overflow_checks \in BOOLEAN
    /\ last = Call("new", "-", "-", "-", 0, TRUE, -1, 0)
    /\ unwithdrawn_validator_rewards = EmptyMap
    /\ unwithdrawn_delegator_rewards = EmptyMap
    /\ encoded_message = NoMessage
    /\ decoded = NotDecoded
    /\ ft_transfers = <<>>
    /\ returned = NotReturned
    /\ \E processing_status \in ProcessingStatuses :
       \E validator_set \in
              {Recorded_facts(EraFacts, n, env).next_validator_set :
                   n \in 0..Len(EraFacts)}
              \cup (IF overflow_checks
                    THEN {}
                    ELSE {Recorded_facts(WrappedEraFacts, Len(WrappedEraFacts),
                                         env).next_validator_set}) :
           validator_set_of_era =
               [ValidatorSetOfEra_new(0, 0, env) EXCEPT
                    !.validator_set = validator_set,
                    !.processing_status = processing_status]

NextEra ==
    \/ is_ready_call
    \/ \E ids \in UnprofitableIdLists : set_unprofitable_validator_ids(ids)
    \/ calculate_valid_total_stake

SpecEra == InitEra /\ [][NextEra]_vars

----------------------------------------------------------------------------
(* The mapping of appchain ids.  The contract starts where account "a" has  *)
(* registered as a validator with the appchain id "x" and decreased its     *)
(* stake; its queue is absent, as decrease_stake leaves it, or holds the    *)
(* reference decrease_stake pushes.  Accounts register and unbond as        *)
(* validators and withdraw, eras are stored and the clock advances.         *)

MappingFacts ==
    << [kind |-> "ValidatorRegistered", validator_id |-> "a",
        validator_id_in_appchain |-> "x", amount |-> 11, can_be_delegated_to |-> TRUE],
       [kind |-> "StakeDecreased", validator_id |-> "a", amount |-> 1] >>

InitMapping ==
    /\ env = [block_index |-> 0, block_timestamp |-> 0]
    /\ overflow_checks \in BOOLEAN
    /\ LET r == Recorded_facts(MappingFacts, Len(MappingFacts), env)
       IN  /\ staking_histories = r.staking_histories
           /\ next_validator_set = r.next_validator_set
    /\ validator_account_id_mapping = insert(EmptyMap, "x", "a")
    /\ validator_set_histories = ValidatorSetHistories_new
    /\ unbonded_stakes \in
           {EmptyMap,
            insert(EmptyMap, "a",
                   pushed_unbond_stakes(EmptyMap, ValidatorSetHistories_new, "a", 1))}
    /\ last = Call("new", "-", "-", "-", 0, TRUE, -1, 0)
    /\ unwithdrawn_validator_rewards = EmptyMap
    /\ unwithdrawn_delegator_rewards = EmptyMap
    /\ encoded_message = NoMessage
    /\ decoded = NotDecoded
    /\ ft_transfers = <<>>
    /\ validator_set_of_era = ValidatorSetOfEra_new(0, 0, env)
    /\ returned = NotReturned

NextMapping ==
    \/ \E v \in AccountIds, x \in AppchainIds, amount \in Amounts, c \in DelegationFlags :
           register_validator(v, x, amount, c)
    \/ \E v \in AccountIds : unbond_stake(v)
    \/ \E a \in AccountIds : withdraw_stake(a)
    \/ \E era \in 0..MaxEra : insert_validator_set(era)
    \/ Tick

SpecMapping == InitMapping /\ [][NextMapping]_vars

----------------------------------------------------------------------------
(* Properties of the staking ledger and of the next validator set *)

\* the names of the calls that record a staking fact
StakingOps ==
    {"register_validator", "increase_stake", "register_delegator", "increase_delegation",
     "decrease_stake", "unbond_stake", "enable_delegation", "disable_delegation",
     "decrease_delegation", "unbond_delegation"}

\* the step is a call that recorded a staking fact
Appended == staking_histories' # staking_histories

\* C1: on a fresh ledger the k-th append (k from 0) stores and returns the entry of
\* index k: after it the stored indices are exactly 0..k, each entry carries its own
\* index, get(i) finds an entry iff 0 <= i <= k, index_range() is (0, k), and the
\* entries stored before are still there.
C1_DenseIndices ==
    /\ LedgerLen = 0
    /\ [][Appended =>
            LET k == LedgerLen
                after == staking_histories'
            IN  /\ DOMAIN after.histories = 0..k
                /\ after.histories[k].index = k
                /\ last'.index = k
                /\ StakingHistories_index_range(after) = [start_index |-> 0, end_index |-> k]
                /\ \A i \in 0..(MaxFacts + 1) :
                       (StakingHistories_get(after, i) # {}) <=> (i <= k)
                /\ \A i \in 0..(k - 1) :
                       after.histories[i] = staking_histories.histories[i]]_vars

\* C1 witness: the third append has returned index 2
C1_Witness ==
    /\ LedgerLen = 3
    /\ last.ok
    /\ last.index = 2
    /\ DOMAIN staking_histories.histories = {0, 1, 2}

\* the validator set obtained by applying the entries i, i + 1, ... of the ledger to
\* vs, each in the block that recorded it
RECURSIVE Replay(_, _, _)
Replay(sh, vs, i) ==
    IF ~contains_key(sh.histories, i)
    THEN Done(vs)
    ELSE LET h == sh.histories[i]
             applied == apply_staking_history(vs, h,
                            [block_index |-> h.block_height,
                             block_timestamp |-> h.timestamp])
         IN  IF applied.ok THEN Replay(sh, applied.vs, i + 1) ELSE Panicked(vs)

\* C2: the next validator set is the empty set with every ledger entry applied in
\* index order; a call that completes appends one entry and applies that entry to
\* the set, and a call that does not complete appends nothing and leaves the set.
C2_SnapshotIsReplay ==
    /\ [](Replay(staking_histories, ValidatorSet_new(0), 0) = Done(next_validator_set))
    /\ [][/\ (last'.op \in StakingOps /\ last'.ok) =>
                 /\ Cardinality(DOMAIN staking_histories'.histories) = LedgerLen + 1
                 /\ \A i \in DOMAIN staking_histories.histories :
                        staking_histories'.histories[i] = staking_histories.histories[i]
                 /\ apply_staking_history(next_validator_set,
                        staking_histories'.histories[staking_histories'.end_index], env)
                    = Done(next_validator_set')
          /\ (last'.op \in StakingOps /\ ~last'.ok) =>
                 /\ staking_histories' = staking_histories
                 /\ next_validator_set' = next_validator_set
          /\ (~Appended) => next_validator_set' = next_validator_set]_vars

\* C2 witness: four calls of four kinds have completed, the last one an
\* unbond_delegation
C2_Witness ==
    /\ LedgerLen >= 4
    /\ last.op = "unbond_delegation"
    /\ last.ok
    /\ last.index = staking_histories.end_index
    /\ \E i \in DOMAIN staking_histories.histories :
           staking_histories.histories[i].staking_fact.kind = "StakeIncreased"

\* the sum of f[x] over the set S
RECURSIVE Sum(_, _)
Sum(f, S) ==
    IF S = {}
    THEN 0
    ELSE LET x == CHOOSE y \in S : TRUE IN f[x] + Sum(f, S \ {x})

\* the keys (delegator, validator) of the delegators table that delegate to validator_id
delegations_to(vs, validator_id) ==
    {k \in DOMAIN vs.delegators : k[2] = validator_id}

\* the deposits of the delegators table, by key
delegation_deposits(vs) ==
    [k \in DOMAIN vs.delegators |-> vs.delegators[k].deposit_amount]

\* the total stakes of the validators table, by key
validator_total_stakes(vs) ==
    [v \in DOMAIN vs.validators |-> vs.validators[v].total_stake]

\* C3: the total stake of every registered validator is its own deposit plus the
\* deposits of all the delegators that delegate to it.
C3_ValidatorTotalStake ==
    \A v \in DOMAIN next_validator_set.validators :
        next_validator_set.validators[v].total_stake
        = next_validator_set.validators[v].deposit_amount
          + Sum(delegation_deposits(next_validator_set),
                delegations_to(next_validator_set, v))

\* C4: the total stake of the validator set is the sum of the total stakes of the
\* validators of validator_id_set, and validator_id_set is the key set of validators.
C4_SetTotalStake ==
    /\ next_validator_set.validator_id_set = DOMAIN next_validator_set.validators
    /\ next_validator_set.total_stake
       = Sum(validator_total_stakes(next_validator_set),
             next_validator_set.validator_id_set)

\* membership in a map of sets, false when the key is absent
in_set_of(m, k, x) == contains_key(m, k) /\ x \in m[k]

\* C5: d is among the delegators of v iff v is among the validators of d iff the
\* delegators table has the pair (d, v); every delegator record names a registered
\* validator.
C5_CrossIndexes ==
    LET vs == next_validator_set
    IN  /\ \A d \in AccountIds, v \in AccountIds :
               /\ in_set_of(vs.validator_id_to_delegator_id_set, v, d)
                  <=> in_set_of(vs.delegator_id_to_validator_id_set, d, v)
               /\ in_set_of(vs.validator_id_to_delegator_id_set, v, d)
                  <=> contains_key(vs.delegators, <<d, v>>)
        /\ DOMAIN vs.validator_id_to_delegator_id_set \subseteq AccountIds
        /\ DOMAIN vs.delegator_id_to_validator_id_set \subseteq AccountIds
        /\ DOMAIN vs.delegators \subseteq AccountIds \X AccountIds
        /\ \A k \in DOMAIN vs.delegators :
               /\ vs.delegators[k].validator_id = k[2]
               /\ vs.delegators[k].delegator_id = k[1]
               /\ contains_key(vs.validators, k[2])
               /\ k[2] \in vs.validator_id_set

\* C5 witness: a validator with a delegator has unbonded while another validator
\* stays registered
C5_Witness ==
    /\ last.op = "unbond_stake"
    /\ last.ok
    /\ \E i \in DOMAIN staking_histories.histories :
           /\ staking_histories.histories[i].staking_fact.kind = "DelegatorRegistered"
           /\ staking_histories.histories[i].staking_fact.validator_id = last.account_id
    /\ next_validator_set.validator_id_set # {}

\* C6: a completed unbond_stake of validator V applies ValidatorUnbonded: V's record,
\* its id in validator_id_set and the entry validator_id_to_delegator_id_set[V] are
\* gone, every delegator record (D, V) is gone and V is no longer among the validators
\* of D, the delegations to other validators are as before, and the total stake of the
\* set is the one before minus V's total stake before the removal.
C6_ValidatorUnbondedCascade ==
    [][(Appended /\ last'.op = "unbond_stake") =>
          LET V == last'.account_id
              before == next_validator_set
              after == next_validator_set'
          IN  /\ ~contains_key(after.validators, V)
              /\ V \notin after.validator_id_set
              /\ ~contains_key(after.validator_id_to_delegator_id_set, V)
              /\ \A k \in DOMAIN before.delegators :
                     IF k[2] = V
                     THEN /\ ~contains_key(after.delegators, k)
                          /\ ~in_set_of(after.delegator_id_to_validator_id_set, k[1], V)
                     ELSE /\ contains_key(after.delegators, k)
                          /\ after.delegators[k] = before.delegators[k]
                          /\ in_set_of(after.delegator_id_to_validator_id_set, k[1], k[2])
                          /\ in_set_of(after.validator_id_to_delegator_id_set, k[2], k[1])
              /\ after.total_stake
                 = before.total_stake - before.validators[V].total_stake]_vars

\* the calls that take stake out of the validator set
UnbondingOps == {"decrease_stake", "unbond_stake", "decrease_delegation", "unbond_delegation"}

\* C7: after a completed decrease_stake, unbond_stake, decrease_delegation or
\* unbond_delegation by account A, the stored queue unbonded_stakes[A] holds a
\* reference to the fact just recorded, for the era after the last one of the
\* validator set histories.
C7_UnbondedStakeStored ==
    [][(Appended /\ last'.op \in UnbondingOps) =>
          /\ contains_key(unbonded_stakes', last'.account_id)
          /\ \E i \in DOMAIN unbonded_stakes'[last'.account_id] :
                 unbonded_stakes'[last'.account_id][i]
                 = [era_number |-> validator_set_histories.end_index + 1,
                    staking_history_index |-> last'.index]]_vars

\* the account that acted in a decrease or unbond fact, "-" for the other facts
unbonding_account(f) ==
    CASE f.kind \in {"StakeDecreased", "ValidatorUnbonded"} -> f.validator_id
      [] f.kind \in {"DelegationDecreased", "DelegatorUnbonded"} -> f.delegator_id
      [] OTHER -> "-"

\* the accounts with a decrease or unbond recorded in the ledger; no stake is
\* withdrawn in the behaviours of Spec
pending_unbond(account_id) ==
    \E i \in DOMAIN staking_histories.histories :
        unbonding_account(staking_histories.histories[i].staking_fact) = account_id

\* C8: an account with a decrease or unbond recorded and not withdrawn does not
\* register: its register_validator and its register_delegator record no fact.
C8_NoRegistrationWhileUnbonding ==
    [][\A A \in AccountIds :
           pending_unbond(A) =>
               ~(/\ Appended
                 /\ last'.op \in {"register_validator", "register_delegator"}
                 /\ last'.account_id = A)]_vars

\* the unlock period of the fact a reference points to
unlock_period_of(reference) ==
    IF staking_histories.histories[reference.staking_history_index].staking_fact.kind
           \in {"StakeDecreased", "ValidatorUnbonded"}
    THEN unlock_period_of_validator_deposit
    ELSE unlock_period_of_delegator_deposit

\* the current time is at or after the start of the referenced era plus the unlock
\* period
unlocked(reference) ==
    env.block_timestamp
        >= validator_set_histories.histories[reference.era_number].start_timestamp
           + unlock_period_of(reference)

C11_DecreaseAboveBalanceRejected ==
    [][/\ \A V \in AccountIds, amount \in Amounts :
              (/\ contains_key(next_validator_set.validators, V)
               /\ amount > next_validator_set.validators[V].deposit_amount
               /\ decrease_stake(V, amount))
              => stored' = stored
       /\ \A D \in AccountIds, V \in AccountIds, amount \in Amounts :
              (/\ contains_key(next_validator_set.delegators, <<D, V>>)
               /\ amount > next_validator_set.delegators[<<D, V>>].deposit_amount
               /\ decrease_delegation(D, V, amount))
              => stored' = stored]_vars

\* the eras e with end_era - max <= e < end_era
reward_window ==
    {e \in 0..(validator_set_histories.end_index - 1) :
        validator_set_histories.end_index - maximum_era_count_of_unwithdrawn_reward <= e}

\* withdrawn is the sum of the entries of the map before at the keys, and after is
\* before without these entries
withdrawn_exactly(before, after, keys, withdrawn) ==
    /\ withdrawn = Sum(before, keys)
    /\ DOMAIN after = DOMAIN before \ keys
    /\ \A k \in DOMAIN after : after[k] = before[k]

\* C12: withdraw_validator_rewards(V) transfers the sum of the unwithdrawn rewards of
\* V for the eras of the window and removes exactly these entries; so does
\* withdraw_delegator_rewards(D, V) for the rewards of D with V.
C12_RewardWindow ==
    [][/\ \A V \in AccountIds :
              withdraw_validator_rewards(V) =>
                  withdrawn_exactly(
                      unwithdrawn_validator_rewards, unwithdrawn_validator_rewards',
                      {k \in DOMAIN unwithdrawn_validator_rewards :
                          k[2] = V /\ k[1] \in reward_window},
                      last'.transfer)
       /\ \A D \in AccountIds, V \in AccountIds :
              withdraw_delegator_rewards(D, V) =>
                  withdrawn_exactly(
                      unwithdrawn_delegator_rewards, unwithdrawn_delegator_rewards',
                      {k \in DOMAIN unwithdrawn_delegator_rewards :
                          k[2] = D /\ k[3] = V /\ k[1] \in reward_window},
                      last'.transfer)]_vars

\* the payload type of the i-th entry of the stored argument, "-" when its index
\* names none
payload_type_of(i) ==
    IF encoded_message.entries[i].payload_type_index \in 0..(Len(PayloadType) - 1)
    THEN PayloadType[encoded_message.entries[i].payload_type_index + 1]
    ELSE "-"

\* the envelope of the stored argument does not decode
envelope_fails ==
    \/ ~encoded_message.complete
    \/ \E i \in DOMAIN encoded_message.entries : payload_type_of(i) = "-"

\* the payload of the i-th entry does not decode against the schema of its type
payload_fails(i) ==
    /\ payload_type_of(i) # "-"
    /\ ~borsh_deserialize(payload_schema(payload_type_of(i)),
                          encoded_message.entries[i].payload).ok

\* C13: when the envelope does not decode, or the payload of an entry at any
\* position does not decode against the schema of its payload type, decode fails
\* and returns no message at all.
C13_DecodeAllOrNothing ==
    (/\ decoded.called
     /\ \/ envelope_fails
        \/ \E i \in DOMAIN encoded_message.entries : payload_fails(i))
    => (~decoded.ok /\ decoded.messages = <<>>)

\* C13 witness: decode has failed on a complete envelope whose first entry is well
\* formed and whose second entry has a payload cut short
C13_Witness ==
    /\ decoded.called
    /\ ~decoded.ok
    /\ ~envelope_fails
    /\ Len(encoded_message.entries) = 2
    /\ ~payload_fails(1)
    /\ payload_fails(2)

\* the fields of the payload p of a payload type read back from an AppchainEvent
read_back(payload_type, event, p) ==
    CASE payload_type = "Lock" ->
             /\ event.owner_id_in_appchain = p.owner_id_in_appchain
             /\ event.receiver_id_in_near = p.receiver_id_in_near
             /\ event.amount = p.amount
      [] payload_type = "BurnAsset" ->
             /\ event.symbol = p.symbol
             /\ event.owner_id_in_appchain = p.owner_id_in_appchain
             /\ event.receiver_id_in_near = p.receiver_id_in_near
             /\ event.amount = p.amount
      [] payload_type = "PlanNewEra" ->
             event.era_number = p.new_planned_era
      [] payload_type = "EraPayout" ->
             /\ event.era_number = p.era
             /\ event.unprofitable_validator_ids = p.exclude
             /\ "payout" \in DOMAIN event
             /\ event.payout = p.payout

\* the payloads of a payload type offered to the decoder, and their encodings
payloads_of(payload_type) ==
    CASE payload_type = "Lock" -> LockPayloads
      [] payload_type = "BurnAsset" -> BurnAssetPayloads
      [] payload_type = "PlanNewEra" -> PlanNewEraPayloads
      [] payload_type = "EraPayout" -> EraPayoutPayloads

borsh_of(payload_type, p) ==
    CASE payload_type = "Lock" -> borsh_LockPayload(p)
      [] payload_type = "BurnAsset" -> borsh_BurnAssetPayload(p)
      [] payload_type = "PlanNewEra" -> borsh_PlanNewEraPayload(p)
      [] payload_type = "EraPayout" -> borsh_EraPayoutPayload(p)

\* C14: every message decode returns carries the nonce of its entry, and for an
\* entry whose payload is the encoding of a payload p of its type every field of p
\* is read back from the event with its value.
C14_DecodeLossless ==
    (decoded.called /\ decoded.ok) =>
        \A i \in DOMAIN encoded_message.entries :
            /\ decoded.messages[i].nonce = encoded_message.entries[i].nonce
            /\ \A p \in payloads_of(payload_type_of(i)) :
                   encoded_message.entries[i].payload = borsh_of(payload_type_of(i), p)
                   => read_back(payload_type_of(i), decoded.messages[i].appchain_event, p)

\* the event variant of a payload type
event_of(payload_type) ==
    CASE payload_type = "Lock" -> "NativeTokenLocked"
      [] payload_type = "BurnAsset" -> "NearFungibleTokenBurnt"
      [] payload_type = "PlanNewEra" -> "EraSwitchPlaned"
      [] payload_type = "EraPayout" -> "EraRewardConcluded"

\* C20: a decode that succeeds returns one message per entry of the envelope, the
\* i-th message is the one of the i-th entry and its event is the variant of the
\* payload type of that entry; the call leaves the contract's storage as it was.
C20_DecodeOneToOne ==
    /\ []((decoded.called /\ decoded.ok) =>
              /\ Len(decoded.messages) = Len(encoded_message.entries)
              /\ \A i \in DOMAIN encoded_message.entries :
                     /\ decoded.messages[i].appchain_event.event
                        = event_of(payload_type_of(i))
                     /\ decoded.messages[i]
                        = decode_message(
                              [nonce |-> encoded_message.entries[i].nonce,
                               payload_type |-> payload_type_of(i),
                               payload |-> encoded_message.entries[i].payload]).message)
    /\ [][decode_call => UNCHANGED <<stored, rewards>>]_vars

\* C20 witness: decode has returned two messages of different variants
C20_Witness ==
    /\ decoded.called
    /\ decoded.ok
    /\ Len(decoded.messages) = 2
    /\ decoded.messages[1].appchain_event.event = "EraRewardConcluded"
    /\ decoded.messages[2].appchain_event.event = "NativeTokenLocked"

\* the validators other than V have the same record in both sets
other_validators_unchanged(before, after, V) ==
    /\ DOMAIN after.validators \ {V} = DOMAIN before.validators \ {V}
    /\ \A W \in DOMAIN before.validators \ {V} :
           after.validators[W] = before.validators[W]

\* C15: a completed register_delegator(D, V, x) adds x to the total stake of V and to
\* the total stake of the set, leaves the deposit of V, creates the record (D, V)
\* with deposit x, and leaves every other validator and every other delegator
\* record as it was.
C15_DelegatorRegisteredFrame ==
    [][(Appended /\ last'.op = "register_delegator") =>
          LET D == last'.account_id
              V == last'.validator_id
              x == last'.amount
              before == next_validator_set
              after == next_validator_set'
          IN  /\ after.validators[V].total_stake = before.validators[V].total_stake + x
              /\ after.total_stake = before.total_stake + x
              /\ after.validators[V].deposit_amount = before.validators[V].deposit_amount
              /\ contains_key(after.delegators, <<D, V>>)
              /\ after.delegators[<<D, V>>].deposit_amount = x
              /\ other_validators_unchanged(before, after, V)
              /\ DOMAIN after.delegators = DOMAIN before.delegators \cup {<<D, V>>}
              /\ \A k \in DOMAIN before.delegators :
                     after.delegators[k] = before.delegators[k]]_vars

\* C16: a completed register_validator with deposit a leaves the validator with
\* deposit_amount = total_stake = a and the set's total stake a higher, and each
\* completed increase_stake of x by the validator raises its deposit_amount, its
\* total_stake and the set's total stake by x; so after the registration and
\* increases x1..xk the three have grown by a + x1 + ... + xk.
C16_StakeIncreaseSums ==
    [][/\ (Appended /\ last'.op = "register_validator") =>
              LET V == last'.account_id
                  validator == next_validator_set'.validators[V]
              IN  /\ validator.deposit_amount = last'.amount
                  /\ validator.total_stake = last'.amount
                  /\ next_validator_set'.total_stake
                     = next_validator_set.total_stake + last'.amount
       /\ (Appended /\ last'.op = "increase_stake") =>
              LET V == last'.account_id
                  before == next_validator_set.validators[V]
                  after == next_validator_set'.validators[V]
              IN  /\ after.deposit_amount = before.deposit_amount + last'.amount
                  /\ after.total_stake = before.total_stake + last'.amount
                  /\ next_validator_set'.total_stake
                     = next_validator_set.total_stake + last'.amount]_vars

\* C17: register_validator of a registered account, or with a validator_id_in_appchain
\* that is mapped, and register_delegator of a pair that has a record, record
\* nothing and leave the stored state; no two registered validators have the same
\* validator_id_in_appchain.
C17_NoDuplicateRegistration ==
    /\ [](\A V \in DOMAIN next_validator_set.validators,
             W \in DOMAIN next_validator_set.validators :
              V # W => next_validator_set.validators[V].validator_id_in_appchain
                       # next_validator_set.validators[W].validator_id_in_appchain)
    /\ [][/\ \A V \in AccountIds, X \in AppchainIds, amount \in Amounts,
                c \in DelegationFlags :
                 (/\ \/ V \in next_validator_set.validator_id_set
                     \/ contains_key(validator_account_id_mapping, X)
                  /\ register_validator(V, X, amount, c))
                 => (stored' = stored /\ (last' # last => ~last'.ok))
          /\ \A D \in AccountIds, V \in AccountIds, amount \in Amounts :
                 (/\ contains_key(next_validator_set.delegators, <<D, V>>)
                  /\ register_delegator(D, V, amount))
                 => (stored' = stored /\ (last' # last => ~last'.ok))]_vars

\* C17 witness: two validators are registered and a register_validator of one of
\* them has been rejected
C17_Witness ==
    /\ last.op = "register_validator"
    /\ ~last.ok
    /\ last.account_id \in next_validator_set.validator_id_set
    /\ last.amount >= minimum_validator_deposit
    /\ ~contains_key(validator_account_id_mapping, last.appchain_id)

\* C18: a staking call that does not complete leaves the ledger, the next validator
\* set, the mapping of appchain ids and the unbonding queues as they were; so do
\* register_delegator and increase_delegation that name a validator that is not
\* registered.
C18_FailedCallChangesNothing ==
    [][/\ (last'.op \in StakingOps /\ ~last'.ok) => stored' = stored
       /\ \A D \in AccountIds, V \in AccountIds, amount \in Amounts :
              (/\ ~contains_key(next_validator_set.validators, V)
               /\ \/ register_delegator(D, V, amount)
                  \/ increase_delegation(D, V, amount))
              => (stored' = stored /\ (last' # last => ~last'.ok))]_vars

\* C18 witness: a register_delegator that names a validator that is not registered
\* has been rejected
C18_Witness ==
    /\ last.op = "register_delegator"
    /\ ~last.ok
    /\ ~contains_key(next_validator_set.validators, last.validator_id)
    /\ ~contains_key(next_validator_set.delegators, <<last.account_id, last.validator_id>>)
    /\ last.amount >= minimum_delegator_deposit
    /\ LedgerLen > 0

\* C19: every step keeps each stored ledger entry, with its fact, index, block height
\* and timestamp, under its index, and does not lower end_index.
C19_LedgerImmutable ==
    [][/\ \A i \in DOMAIN staking_histories.histories :
              /\ StakingHistories_get(staking_histories', i)
                 = {staking_histories.histories[i]}
              /\ staking_histories.histories[i].index = i
       /\ staking_histories'.end_index >= staking_histories.end_index]_vars

\* C19 witness: an entry was appended at a later time than the entries before it,
\* and a withdrawal has been made after it
C19_Witness ==
    /\ LedgerLen >= 2
    /\ \E i \in DOMAIN staking_histories.histories :
           /\ i + 1 \in DOMAIN staking_histories.histories
           /\ staking_histories.histories[i].timestamp
              < staking_histories.histories[i + 1].timestamp
    /\ last.op \in {"withdraw_stake", "withdraw_validator_rewards",
                    "withdraw_delegator_rewards"}
    /\ last.ok

\* the positions of the next validator set hold at least their minimum deposit
positions_at_floor(vs) ==
    /\ \A v \in DOMAIN vs.validators :
           vs.validators[v].deposit_amount >= minimum_validator_deposit
    /\ \A k \in DOMAIN vs.delegators :
           vs.delegators[k].deposit_amount >= minimum_delegator_deposit

\* C21: every registered validator holds at least minimum_validator_deposit and every
\* delegator record at least minimum_delegator_deposit; a validator leaves the set
\* only by its own unbond_stake, a delegator record only by its own
\* unbond_delegation or by the unbond_stake of its validator.
C21_PositionsAtFloor ==
    /\ [](positions_at_floor(next_validator_set))
    /\ [][/\ \A v \in DOMAIN next_validator_set.validators :
                 ~contains_key(next_validator_set'.validators, v)
                 => (last'.op = "unbond_stake" /\ last'.ok /\ last'.account_id = v)
          /\ \A k \in DOMAIN next_validator_set.delegators :
                 ~contains_key(next_validator_set'.delegators, k)
                 => /\ last'.ok
                    /\ \/ /\ last'.op = "unbond_delegation"
                          /\ <<last'.account_id, last'.validator_id>> = k
                       \/ /\ last'.op = "unbond_stake"
                          /\ last'.account_id = k[2]]_vars

\* the number of validators delegator_id delegates to
validator_count_of(vs, delegator_id) ==
    IF contains_key(vs.delegator_id_to_validator_id_set, delegator_id)
    THEN Cardinality(vs.delegator_id_to_validator_id_set[delegator_id])
    ELSE 0

\* C22: no delegator delegates to more validators than
\* maximum_validators_per_delegator; register_delegator by a delegator that already
\* has that many changes nothing, and by a delegator with fewer it is recorded
\* when the validator is registered, the pair is new, the delegator holds no
\* unbonded stake and the deposit reaches the minimum.
C22_ValidatorsPerDelegator ==
    /\ \A d \in DOMAIN next_validator_set.delegator_id_to_validator_id_set :
           validator_count_of(next_validator_set, d)
           <= maximum_validators_per_delegator
    /\ \A D \in DelegatorIds, V \in RegisterTargets :
           IF validator_count_of(next_validator_set, D)
              >= maximum_validators_per_delegator
           THEN ENABLED (/\ register_delegator_call(D, V, minimum_delegator_deposit)
                         /\ stored' = stored)
           ELSE (/\ contains_key(next_validator_set.validators, V)
                 /\ ~contains_key(next_validator_set.delegators, <<D, V>>)
                 /\ ~contains_key(unbonded_stakes, D))
                => ENABLED (/\ register_delegator_call(D, V, minimum_delegator_deposit)
                            /\ contains_key(next_validator_set'.delegators, <<D, V>>)
                            /\ last'.ok)

\* C22 witness: a delegator that was at the maximum has unbonded from one validator
\* and register_delegator has brought it back to the maximum with another one
C22_Witness ==
    /\ validator_count_of(next_validator_set, "d") = maximum_validators_per_delegator
    /\ ~contains_key(next_validator_set.delegators, <<"d", "v01">>)
    /\ contains_key(next_validator_set.delegators, <<"d", "v17">>)
    /\ last.op = "register_delegator"
    /\ last.ok

\* the step lowered the deposit of (D, V), the total stake of V and of the set by
\* amount, kept the deposit of V and appended a fact
delegation_lowered(D, V, amount) ==
    /\ staking_histories'.end_index = append_index(staking_histories)
    /\ contains_key(next_validator_set'.delegators, <<D, V>>)
    /\ next_validator_set'.delegators[<<D, V>>].deposit_amount
       = next_validator_set.delegators[<<D, V>>].deposit_amount - amount
    /\ next_validator_set'.validators[V].total_stake
       = next_validator_set.validators[V].total_stake - amount
    /\ next_validator_set'.total_stake = next_validator_set.total_stake - amount
    /\ next_validator_set'.validators[V].deposit_amount
       = next_validator_set.validators[V].deposit_amount

\* C23: decrease_delegation(V, amount) by a delegator D of V changes nothing when
\* the remainder of the deposit would be above 0 and below
\* minimum_delegator_deposit; when amount is the whole deposit, or the remainder
\* reaches the minimum, the call is recorded and lowers the deposit of (D, V), the
\* total stake of V and of the set by amount, and keeps the deposit of V.
C23_DelegationDecreaseFloor ==
    \A D \in AccountIds, V \in AccountIds, amount \in Amounts :
        (/\ LedgerLen < MaxFacts
         /\ contains_key(next_validator_set.delegators, <<D, V>>)
         /\ contains_key(next_validator_set.validators, V)
         /\ amount <= next_validator_set.delegators[<<D, V>>].deposit_amount)
        => LET remainder ==
                   next_validator_set.delegators[<<D, V>>].deposit_amount - amount
           IN  IF 0 < remainder /\ remainder < minimum_delegator_deposit
               THEN ENABLED (decrease_delegation(D, V, amount) /\ stored' = stored)
               ELSE ENABLED (/\ decrease_delegation(D, V, amount)
                             /\ delegation_lowered(D, V, amount))

\* the amounts of the facts referenced by a queue
RECURSIVE queue_amount(_, _)
queue_amount(sh, references) ==
    IF references = <<>>
    THEN 0
    ELSE sh.histories[Head(references).staking_history_index].staking_fact.amount
         + queue_amount(sh, Tail(references))

\* what the contract holds for receiver_id in the token: the amounts referenced by
\* its unbonding queue, or its unwithdrawn rewards
claimable(sh, queues, validator_rewards, delegator_rewards, receiver_id, token) ==
    IF token = "oct_token"
    THEN IF contains_key(queues, receiver_id)
         THEN queue_amount(sh, queues[receiver_id])
         ELSE 0
    ELSE Sum(validator_rewards,
             {k \in DOMAIN validator_rewards : k[2] = receiver_id})
         + Sum(delegator_rewards,
               {k \in DOMAIN delegator_rewards : k[2] = receiver_id})

\* C24: a step that starts a transfer starts it for an amount above 0 that the step
\* has taken out of what the contract holds for the receiver (its queue or its reward
\* entries), a withdrawal of 0 starts none, and when a transfer fails the contract
\* holds its amount for the receiver again.
C24_TransferAfterBookkeeping ==
    [][LET held(receiver_id, token) ==
               claimable(staking_histories, unbonded_stakes,
                         unwithdrawn_validator_rewards, unwithdrawn_delegator_rewards,
                         receiver_id, token)
           held_after(receiver_id, token) ==
               claimable(staking_histories', unbonded_stakes',
                         unwithdrawn_validator_rewards', unwithdrawn_delegator_rewards',
                         receiver_id, token)
       IN  /\ Len(ft_transfers') > Len(ft_transfers) =>
                  LET t == ft_transfers'[Len(ft_transfers')]
                  IN  /\ ft_transfers' = Append(ft_transfers, t)
                      /\ t.amount > 0
                      /\ t.amount = last'.transfer
                      /\ held_after(t.receiver_id, t.token)
                         = held(t.receiver_id, t.token) - t.amount
           /\ (/\ last'.op \in {"withdraw_stake", "withdraw_validator_rewards",
                               "withdraw_delegator_rewards"}
               /\ last'.transfer = 0)
              => ft_transfers' = ft_transfers
           /\ ft_transfer_resolved(FALSE) =>
                  LET t == Head(ft_transfers)
                  IN  held_after(t.receiver_id, t.token)
                      = held(t.receiver_id, t.token) + t.amount]_vars

\* the era numbers for which ValidatorSetHistories::get returns a snapshot
stored_eras(vsh) == DOMAIN vsh.histories

\* C25: once an era has been inserted, the eras that get returns are exactly
\* 0..end_index, and index_range reports start_index 0 and the latest era inserted.
C25_ErasContiguous ==
    stored_eras(validator_set_histories) # {} =>
        /\ stored_eras(validator_set_histories)
           = 0..validator_set_histories.end_index
        /\ validator_set_histories.start_index = 0

\* C26: the query answers TRUE exactly in ReadyForDistributingReward, whatever the
\* cursors of the status; a ValidatorSetOfEra made by new is in CopyingFromLastEra
\* with both cursors 0 and is not ready.
C26_ReadyOnlyWhenReady ==
    /\ returned # NotReturned =>
           returned[1] = (validator_set_of_era.processing_status.status
                          = "ReadyForDistributingReward")
    /\ \A era_number \in 0..MaxEra :
           LET created == ValidatorSetOfEra_new(era_number, 0, env)
           IN  /\ created.processing_status =
                      [status |-> "CopyingFromLastEra", copying_validator_index |-> 0,
                       copying_delegator_index |-> 0]
               /\ ~is_ready_for_distributing_reward(created.processing_status)

\* C26 witness: the query has answered FALSE for a status with cursors above 0
C26_Witness ==
    /\ returned = <<FALSE>>
    /\ validator_set_of_era.processing_status.status = "DistributingReward"
    /\ validator_set_of_era.processing_status.distributing_validator_index > 0

\* C29: after calculate_valid_total_stake, valid_total_stake is the total stake of
\* the set less the total stakes of the validators of the unprofitable set, each
\* counted once, and lies between 0 and the total stake; when an unprofitable id is
\* not a validator of the snapshot the calculation fails and changes nothing.
C29_ValidTotalStake ==
    /\ []((last.op = "calculate_valid_total_stake" /\ last.ok) =>
              LET vs == validator_set_of_era.validator_set
                  unprofitable == validator_set_of_era.unprofitable_validator_id_set
              IN  /\ unprofitable \subseteq DOMAIN vs.validators
                  /\ validator_set_of_era.valid_total_stake
                     = vs.total_stake
                       - Sum([v \in unprofitable |-> vs.validators[v].total_stake],
                             unprofitable)
                  /\ 0 <= validator_set_of_era.valid_total_stake
                  /\ validator_set_of_era.valid_total_stake <= vs.total_stake)
    /\ [][(/\ calculate_valid_total_stake
           /\ \E v_id \in validator_set_of_era.unprofitable_validator_id_set :
                  ~contains_key(validator_set_of_era.validator_set.validators, v_id))
          => /\ validator_set_of_era' = validator_set_of_era
             /\ (last' # last => ~last'.ok)]_vars

\* C27: a completed enable_delegation or disable_delegation by V appends one fact and
\* sets can_be_delegated_to of V to TRUE, or to FALSE; the deposit and the total
\* stake of V, the total stake of the set, the delegator records, the two
\* cross-indexes, the other validators, the mapping of appchain ids and the
\* unbonding queues are as before the call.
C27_DelegationFlagFrame ==
    [][(last'.op \in {"enable_delegation", "disable_delegation"} /\ last'.ok) =>
           LET V == last'.account_id
           IN  /\ contains_key(next_validator_set.validators, V)
               /\ next_validator_set' =
                      [next_validator_set EXCEPT
                           !.validators[V].can_be_delegated_to =
                               (last'.op = "enable_delegation")]
               /\ staking_histories'.end_index = append_index(staking_histories)
               /\ DOMAIN staking_histories'.histories
                  = DOMAIN staking_histories.histories
                    \cup {staking_histories'.end_index}
               /\ staking_histories'.histories[staking_histories'.end_index]
                      .staking_fact
                  = [kind |-> IF last'.op = "enable_delegation"
                              THEN "ValidatorDelegationEnabled"
                              ELSE "ValidatorDelegationDisabled",
                     validator_id |-> V]
               /\ UNCHANGED <<validator_account_id_mapping, unbonded_stakes,
                              validator_set_histories>>]_vars

\* C27 witness: disable_delegation has completed for a validator that has a
\* delegator, and the delegation is in place
C27_Witness ==
    /\ last.op = "disable_delegation"
    /\ last.ok
    /\ ~next_validator_set.validators[last.account_id].can_be_delegated_to
    /\ \E D \in AccountIds :
           /\ contains_key(next_validator_set.delegators, <<D, last.account_id>>)
           /\ in_set_of(next_validator_set.validator_id_to_delegator_id_set,
                        last.account_id, D)
    /\ next_validator_set.validators[last.account_id].total_stake
       > next_validator_set.validators[last.account_id].deposit_amount

\* no entry of a cross-index maps to an empty set
no_empty_index_entry(vs) ==
    /\ \A k \in DOMAIN vs.validator_id_to_delegator_id_set :
           vs.validator_id_to_delegator_id_set[k] # {}
    /\ \A k \in DOMAIN vs.delegator_id_to_validator_id_set :
           vs.delegator_id_to_validator_id_set[k] # {}

\* C28: a completed unbond_delegation(V) by D removes the record (D, V) and the pair
\* from both cross-indexes, leaves no index entry with an empty set, lowers the
\* total stake of V and of the set by the deposit of (D, V), keeps the deposit of V,
\* and records a DelegatorUnbonded fact with that deposit as amount.
C28_DelegatorUnbonded ==
    /\ [](no_empty_index_entry(next_validator_set))
    /\ [][(last'.op = "unbond_delegation" /\ last'.ok) =>
              LET D == last'.account_id
                  V == last'.validator_id
                  before == next_validator_set
                  after == next_validator_set'
              IN  /\ contains_key(before.delegators, <<D, V>>)
                  /\ after.delegators = remove(before.delegators, <<D, V>>)
                  /\ ~in_set_of(after.validator_id_to_delegator_id_set, V, D)
                  /\ ~in_set_of(after.delegator_id_to_validator_id_set, D, V)
                  /\ after.validators[V].total_stake
                     = before.validators[V].total_stake
                       - before.delegators[<<D, V>>].deposit_amount
                  /\ after.total_stake
                     = before.total_stake - before.delegators[<<D, V>>].deposit_amount
                  /\ after.validators[V].deposit_amount
                     = before.validators[V].deposit_amount
                  /\ other_validators_unchanged(before, after, V)
                  /\ staking_histories'.end_index = append_index(staking_histories)
                  /\ staking_histories'.histories[staking_histories'.end_index]
                         .staking_fact
                     = [kind |-> "DelegatorUnbonded", delegator_id |-> D,
                        validator_id |-> V,
                        amount |-> before.delegators[<<D, V>>].deposit_amount]]_vars

\* the amounts deposited, as the ledger records them
deposited(sh) ==
    LET deposits == {i \in DOMAIN sh.histories :
                         sh.histories[i].staking_fact.kind \in
                             {"ValidatorRegistered", "StakeIncreased",
                              "DelegatorRegistered", "DelegationIncreased"}}
    IN  Sum([i \in deposits |-> sh.histories[i].staking_fact.amount], deposits)

\* the amounts of the facts referenced by the unbonding queues of all accounts
pending(sh, queues) ==
    Sum([a \in DOMAIN queues |-> queue_amount(sh, queues[a])], DOMAIN queues)

\* the amounts withdraw_stake has sent
paid_out(transfers) ==
    LET sent == {i \in DOMAIN transfers : transfers[i].token = "oct_token"}
    IN  Sum([i \in sent |-> transfers[i].amount], sent)

\* C30: in every state the amounts deposited equal the total stake of the set plus
\* the amounts referenced by the unbonding queues plus the amounts withdraw_stake
\* has sent.
C30_DepositsConserved ==
    deposited(staking_histories)
    = next_validator_set.total_stake
      + pending(staking_histories, unbonded_stakes)
      + paid_out(ft_transfers)

----------------------------------------------------------------------------
(* Properties of withdraw_stake on pending references *)

\* reference is in the queue the map stakes holds for account_id
queued(stakes, account_id, reference) ==
    /\ contains_key(stakes, account_id)
    /\ \E j \in DOMAIN stakes[account_id] : stakes[account_id][j] = reference

----------------------------------------------------------------------------
(* Properties of the start of the reward window *)

\* the first era of the window: end_era - max, or era 0 when that is below 0
window_start ==
    IF validator_set_histories.end_index < maximum_era_count_of_unwithdrawn_reward
    THEN 0
    ELSE validator_set_histories.end_index - maximum_era_count_of_unwithdrawn_reward

\* the eras from the start of the window up to, not including, end_era
window_from_start == window_start..(validator_set_histories.end_index - 1)

\* C32: withdraw_validator_rewards(V) and withdraw_delegator_rewards(D, V) complete
\* for every end_index of the validator set histories; while end_index is below
\* maximum_era_count_of_unwithdrawn_reward the window starts at era 0, so the call
\* pays and removes the entries of the eras 0..end_index - 1.
C32_RewardWindowStart ==
    /\ \A V \in AccountIds :
           ENABLED (/\ withdraw_validator_rewards(V)
                    /\ last'.op = "withdraw_validator_rewards"
                    /\ last'.account_id = V
                    /\ last'.ok
                    /\ withdrawn_exactly(
                           unwithdrawn_validator_rewards,
                           unwithdrawn_validator_rewards',
                           {k \in DOMAIN unwithdrawn_validator_rewards :
                               k[2] = V /\ k[1] \in window_from_start},
                           last'.transfer))
    /\ \A D \in AccountIds, V \in AccountIds :
           ENABLED (/\ withdraw_delegator_rewards(D, V)
                    /\ last'.op = "withdraw_delegator_rewards"
                    /\ last'.account_id = D
                    /\ last'.validator_id = V
                    /\ last'.ok
                    /\ withdrawn_exactly(
                           unwithdrawn_delegator_rewards,
                           unwithdrawn_delegator_rewards',
                           {k \in DOMAIN unwithdrawn_delegator_rewards :
                               k[2] = D /\ k[3] = V /\ k[1] \in window_from_start},
                           last'.transfer))

----------------------------------------------------------------------------
(* Properties of validator_account_id_mapping *)

\* C33: an entry of validator_account_id_mapping stays, with its account, under
\* every call, unbond_stake of that account and withdraw_stake included; a
\* register_validator with a validator_id_in_appchain that is mapped records
\* nothing and leaves the stored state, whoever calls it.
C33_MappingNeverReleased ==
    [][/\ \A X \in DOMAIN validator_account_id_mapping :
              /\ contains_key(validator_account_id_mapping', X)
              /\ validator_account_id_mapping'[X] = validator_account_id_mapping[X]
       /\ \A V \in AccountIds, X \in AppchainIds, amount \in Amounts,
            c \in DelegationFlags :
              (/\ contains_key(validator_account_id_mapping, X)
               /\ register_validator(V, X, amount, c))
              => (stored' = stored /\ (last' # last => ~last'.ok))]_vars

\* C33 witness: account "a" has unbonded as a validator and withdrawn its queue,
\* "x" is still mapped to "a", and a register_validator of "a" with "x" and a
\* sufficient deposit is possible only as a call that changes nothing
C33_Witness ==
    /\ ~("a" \in next_validator_set.validator_id_set)
    /\ ~contains_key(unbonded_stakes, "a")
    /\ last.op = "withdraw_stake"
    /\ last.account_id = "a"
    /\ last.transfer > 0
    /\ contains_key(validator_account_id_mapping, "x")
    /\ validator_account_id_mapping["x"] = "a"
    /\ LedgerLen < MaxFacts
    /\ ENABLED (register_validator("a", "x", 11, TRUE) /\ stored' = stored)
    /\ ~ENABLED (register_validator("a", "x", 11, TRUE) /\ stored' # stored)
    /\ ENABLED (register_validator("a", "y", 11, TRUE) /\ stored' # stored)

----------------------------------------------------------------------------
(* Properties of can_be_delegated_to *)

\* C34: register_delegator(D, V, x) and increase_delegation(D, V, x) toward a
\* validator V whose can_be_delegated_to is false record nothing and leave the
\* stored state.
C34_DelegationOnlyWhenEnabled ==
    [][\A D \in AccountIds, V \in AccountIds, amount \in Amounts :
           (/\ contains_key(next_validator_set.validators, V)
            /\ ~next_validator_set.validators[V].can_be_delegated_to
            /\ \/ register_delegator(D, V, amount)
               \/ increase_delegation(D, V, amount))
           => (stored' = stored /\ (last' # last => ~last'.ok))]_vars

====
